---- MODULE Spec2Model ----
(***************************************************************************)
(* A model of the pbt property-based-testing engine: the shrinking driver  *)
(* `minimal` and the unsigned-integer `step` (pbt/src/shrink.rs,           *)
(* pbt/src/impls/ints.rs), the witness search (pbt/src/lib.rs), the seed   *)
(* allocator (pbt/src/conjure.rs), the cardinality-directed generation     *)
(* protocol (pbt/src/impls/*.rs, pbt-macros/src/lib.rs) and the iterator   *)
(* combinators (pbt/src/iter.rs).                                          *)
(***************************************************************************)
EXTENDS Integers, Sequences, FiniteSets, TLC

VARIABLES
    \* ---- shrink::minimal (pbt/src/shrink.rs) ----
    pc,         \* position of the modelled call
    ty,         \* the type T the call is instantiated at
    t,          \* the argument `t` of minimal
    property,   \* the predicate handed to minimal / witness
    acc,        \* the accumulator `acc` of minimal
    reuse,      \* the HashSet `reuse` of already-tried values
    result,     \* the value returned by the modelled call
    steps,      \* number of calls of Shrink::step made by minimal
    accepted,   \* the values step returned, in order (the shrink trajectory)
    tried,      \* what the latest step call offered to the property, in order
    \* ---- witness (pbt/src/lib.rs) and Seeds (pbt/src/conjure.rs) ----
    call,       \* the entry point under check: "minimal", "witness", ...
    wy,         \* which generator stands for WyRand::gen_u64
    seeds,      \* the Seeds iterator: its inner Seed (seed, size)
    trials,     \* how many seeds `take(N_TRIALS)` has handed out
    trace,      \* per trial of this call: the seed handed out and what conjure returned
    tested,     \* how many times witness itself evaluated the predicate (lib.rs:30)
    run,        \* 1 during the first call of witness, 2 during the repeated call
    first,      \* what the first call returned and how it got there
    \* ---- Seed::split, partition, conjure, leaf (pbt/src/conjure.rs, impls) ----
    seedIn,     \* the Seed the modelled call consumes
    arity,      \* the const generic N of split / partition
    samples,    \* the words split drew for its heap and the indices made of them
    children,   \* the child seeds split / partition returned
    \* ---- the iterator combinators (pbt/src/iter.rs) ----
    object,     \* the combinator object the calls are made on
    given,      \* the arguments it was constructed from
    returned    \* per call made on it, in order: the call and what it returned

shrinkVars == <<pc, ty, t, property, acc, reuse, result, steps, accepted, tried>>

witnessVars == <<call, wy, seeds, trials, trace, tested, run, first>>

splitVars == <<seedIn, arity, samples, children>>

iterVars == <<object, given, returned>>

vars == <<shrinkVars, witnessVars, splitVars, iterVars>>

\* Option<T>: None is the empty sequence, Some(v) the one-element sequence.
None == <<>>

Some(v) == <<v>>

Unwrap(o) == o[1]

(***************************************************************************)
(* Types.  A type is named by a descriptor: u8 (impls/ints.rs:222), a      *)
(* derived enum with n unit variants (pbt-tests/src/lib.rs:9-10 is n = 0), *)
(* Box<T>, Result<T, E> and [T; N].  The ring type is an implementor of    *)
(* Shrink used to drive minimal through revisited values.                  *)
(***************************************************************************)
TyU8 == [k |-> "u8"]

TyRing == [k |-> "ring"]

TyEnum(n) == [k |-> "enum", n |-> n]

TyVoid == TyEnum(0)

TyBox(T) == [k |-> "Box", of |-> T]

TyResult(T, E) == [k |-> "Result", ok |-> T, err |-> E]

TyArray(T, N) == [k |-> "array", of |-> T, n |-> N]

\* pbt-tests/src/lib.rs:12-16, `enum Peano { O, S(Box<Self>) }`: a value is
\* the number of its S constructors.
TyPeano == [k |-> "Peano"]

\* pbt-tests/src/lib.rs:18-19, `struct Pair(Peano, Peano)`: a value is the
\* tuple <<first, second>>.
TyPair == [k |-> "Pair"]

\* lib.rs:68-77, `Vec<i8>`: a value is the sequence of its elements.
TyVecI8 == [k |-> "Vec<i8>"]

TyI8 == [k |-> "i8"]

(***************************************************************************)
(* Properties.  The closures the repository's tests hand to `witness` and  *)
(* `minimal`: `u >= m` and `u == m` (pbt/src/lib.rs tests), `i >= minimal` *)
(* (impls/ints.rs test), `u > 0 && u % m == 0` (impls/ints.rs, the         *)
(* commented shrink_mod_100), a predicate that rejects everything and one  *)
(* that accepts everything (pbt-tests `void`).                             *)
(***************************************************************************)
BITS == 8

U8 == 0 .. (2 ^ BITS - 1)

Holds(p, u) ==
    CASE p.kind = "ge"    -> u >= p.m
      [] p.kind = "eq"    -> u = p.m
      [] p.kind = "mod"   -> u > 0 /\ p.m > 0 /\ u % p.m = 0
      [] p.kind = "in"    -> u \in p.m
      [] p.kind = "never" -> FALSE
      [] p.kind = "gt"    -> u[1] > u[2]
      [] p.kind = "len"   -> Len(u) >= p.m
      [] p.kind = "elem"  -> u[p.i] \in p.m
      [] OTHER            -> TRUE

(***************************************************************************)
(* shrink.rs:12-18, the closure that shadows `property` inside minimal:    *)
(* a value already in `reuse` is refused without consulting the property;  *)
(* any other value is inserted and the property decides.  `seen` records   *)
(* whether the value was already in the set.                               *)
(***************************************************************************)
\* Faulty variant: the closure without the `reuse.contains` test.
MemoSkipsLookup(p, memo, v) ==
    [ok |-> Holds(p, v), reuse |-> memo \cup {v}, seen |-> v \in memo]

\* Faulty variant: `insert || property` in place of `insert && property`.
MemoInsertOrProperty(p, memo, v) ==
    IF v \in memo
    THEN [ok |-> FALSE, reuse |-> memo, seen |-> TRUE]
    ELSE [ok |-> TRUE, reuse |-> memo \cup {v}, seen |-> FALSE]

MemoProperty(p, memo, v) ==
    IF v \in memo
    THEN [ok |-> FALSE, reuse |-> memo, seen |-> TRUE]
    ELSE [ok |-> Holds(p, v), reuse |-> memo \cup {v}, seen |-> FALSE]

(***************************************************************************)
(* impls/ints.rs:143-188, Shrink::step for an unsigned integer: the        *)
(* logarithmic ladder.  checked_shr fails once shift reaches the bit       *)
(* width; checked_sub cannot fail because subtrahend <= self.              *)
(***************************************************************************)
\* Faulty variant: a subtrahend of 0 does not end the loop.
RECURSIVE LadderPastZero(_, _, _, _, _)
LadderPastZero(self, p, memo, shift, log) ==
    IF shift >= BITS
    THEN [res |-> None, reuse |-> memo, tried |-> log]
    ELSE LET difference == self - (self \div (2 ^ shift))
             r == MemoProperty(p, memo, difference)
             log2 == Append(log, [v |-> difference, seen |-> r.seen, ok |-> r.ok])
         IN  IF r.ok
             THEN [res |-> Some(difference), reuse |-> r.reuse, tried |-> log2]
             ELSE LadderPastZero(self, p, r.reuse, shift + 1, log2)

RECURSIVE LadderFrom(_, _, _, _, _)
LadderFrom(self, p, memo, shift, log) ==
    IF shift >= BITS
    THEN [res |-> None, reuse |-> memo, tried |-> log]
    ELSE LET subtrahend == self \div (2 ^ shift) IN
         IF subtrahend = 0
         THEN [res |-> None, reuse |-> memo, tried |-> log]
         ELSE LET difference == self - subtrahend
                  r == MemoProperty(p, memo, difference)
                  log2 == Append(log, [v |-> difference, seen |-> r.seen, ok |-> r.ok])
              IN  IF r.ok
                  THEN [res |-> Some(difference), reuse |-> r.reuse, tried |-> log2]
                  ELSE LadderFrom(self, p, r.reuse, shift + 1, log2)

\* Faulty variant: the ladder entered at shift 1.
StepStartsAtShiftOne(self, p, memo) ==
    LadderFrom(self, p, memo, 1, <<>>)

StepUnsigned(self, p, memo) ==
    LadderFrom(self, p, memo, 0, <<>>)

(***************************************************************************)
(* shrink.rs:3-6, the Shrink trait: minimal is generic over any            *)
(* implementor.  RingStep is an implementor whose candidates revisit       *)
(* values: from v it offers v+1, v+2, ... (mod RingSize), every other      *)
(* value of the type, and returns the first one the property accepts.      *)
(***************************************************************************)
RingSize == 4

Ring == 0 .. (RingSize - 1)

RECURSIVE RingFrom(_, _, _, _, _)
RingFrom(self, p, memo, k, log) ==
    IF k >= RingSize
    THEN [res |-> None, reuse |-> memo, tried |-> log]
    ELSE LET candidate == (self + k) % RingSize
             r == MemoProperty(p, memo, candidate)
             log2 == Append(log, [v |-> candidate, seen |-> r.seen, ok |-> r.ok])
         IN  IF r.ok
             THEN [res |-> Some(candidate), reuse |-> r.reuse, tried |-> log2]
             ELSE RingFrom(self, p, r.reuse, k + 1, log2)

RingStep(self, p, memo) ==
    RingFrom(self, p, memo, 1, <<>>)

(***************************************************************************)
(* The derived Shrink of Peano and Pair.  The macro wraps the caller's     *)
(* property in the constructor around the field being shrunk               *)
(* (pbt-macros step_fields, lib.rs:2063-2305; impls/tuples.rs:25-40;       *)
(* impls/boxed.rs:48-54), so every candidate reaches the property of       *)
(* `minimal` as a whole value.  InContext rebuilds that whole value from   *)
(* the Peano being shrunk: the value itself, or a Pair with the other      *)
(* field held fixed.                                                       *)
(***************************************************************************)
Whole == [at |-> "self"]

FirstOf(second) == [at |-> "first", other |-> second]

SecondOf(head) == [at |-> "second", other |-> head]

InContext(ctx, peano) ==
    CASE ctx.at = "self"   -> peano
      [] ctx.at = "first"  -> <<peano, ctx.other>>
      [] ctx.at = "second" -> <<ctx.other, peano>>

(***************************************************************************)
(* pbt-macros step_body_for_enum (lib.rs:2308-2548) at Peano.  At O the    *)
(* match arm has no earlier variant and no field: None.  At S(inner) it    *)
(* first offers the corner of the earlier variant, O, and then steps the   *)
(* field tuple (Box<Self>,), which is Peano::step on `inner` with the      *)
(* property wrapped in S.  `self` is what is left to unwrap and `outer`    *)
(* the number of S constructors already wrapped around it, so the          *)
(* candidates of S^k(O) are O, S(O), ..., S^(k-1)(O) in this order.        *)
(***************************************************************************)
RECURSIVE StepPeanoAt(_, _, _, _, _, _)
StepPeanoAt(self, ctx, p, memo, outer, log) ==
    IF self = 0
    THEN [res |-> None, reuse |-> memo, tried |-> log]
    ELSE LET candidate == InContext(ctx, outer)
             r == MemoProperty(p, memo, candidate)
             log2 == Append(log, [v |-> candidate, seen |-> r.seen, ok |-> r.ok])
         IN  IF r.ok
             THEN [res |-> Some(outer), reuse |-> r.reuse, tried |-> log2]
             ELSE StepPeanoAt(self - 1, ctx, p, r.reuse, outer + 1, log2)

\* Faulty variant: the earlier variant's corner is the only candidate.
StepPeanoCornerOnly(self, p, memo) ==
    StepPeanoAt(IF self = 0 THEN 0 ELSE 1, Whole, p, memo, 0, <<>>)

StepPeano(self, p, memo) ==
    StepPeanoAt(self, Whole, p, memo, 0, <<>>)

\* Faulty variant: a head that does not shrink ends the step, tail untried.
StepPairHeadOnly(self, p, memo) ==
    LET shrunken == StepPeanoAt(self[1], FirstOf(self[2]), p, memo, 0, <<>>)
        head == IF shrunken.res = None THEN self[1] ELSE Unwrap(shrunken.res)
        tail == StepPeanoAt(self[2], SecondOf(head), p,
                            shrunken.reuse, 0, shrunken.tried)
    IN  IF shrunken.res # None
        THEN [res |-> Some(<<head, IF tail.res = None THEN self[2]
                                   ELSE Unwrap(tail.res)>>),
              reuse |-> tail.reuse, tried |-> tail.tried]
        ELSE [res |-> None, reuse |-> shrunken.reuse, tried |-> shrunken.tried]

(***************************************************************************)
(* pbt-macros step_body_for_struct (lib.rs:2551-2635) at Pair: the step of *)
(* the field tuple (impls/tuples.rs:25-40).  The head is stepped with the  *)
(* tail held fixed; if it shrank, the tail is stepped against the new head *)
(* and kept as it was when it does not shrink; if it did not, the step is  *)
(* the tail's, against the old head.                                       *)
(***************************************************************************)
\* tuples.rs:33-38, with `tail` what the tail's step returned.
StepPairEnds(self, head, shrunken, tail) ==
    [res |-> IF tail.res # None
             THEN Some(<<head, Unwrap(tail.res)>>)
             ELSE IF shrunken THEN Some(<<head, self[2]>>) ELSE None,
     reuse |-> tail.reuse, tried |-> tail.tried]

\* tuples.rs:32-38, with `shrunken` what the head's step returned.
StepPairTail(self, p, head, shrunken) ==
    StepPairEnds(self, head, shrunken.res # None,
                 StepPeanoAt(self[2], SecondOf(head), p,
                             shrunken.reuse, 0, shrunken.tried))

\* tuples.rs:30-32.
StepPairHead(self, p, shrunken) ==
    StepPairTail(self, p,
                 IF shrunken.res = None THEN self[1] ELSE Unwrap(shrunken.res),
                 shrunken)

StepPair(self, p, memo) ==
    StepPairHead(self, p, StepPeanoAt(self[1], FirstOf(self[2]), p, memo, 0, <<>>))

(***************************************************************************)
(* impls/ints.rs:65-101, Shrink::step of a signed integer, here of the i8  *)
(* at index i of the vector v: every candidate reaches the property of     *)
(* `minimal` as the vector with that element replaced.  recompose fails    *)
(* (and the property is not called) when abs does not fit the signed type. *)
(***************************************************************************)
I8_MAX == 2 ^ (BITS - 1) - 1

I8_MIN == -(2 ^ (BITS - 1))

recompose(neg, abs) ==
    IF abs > I8_MAX THEN None ELSE Some(IF neg THEN -abs ELSE abs)

\* ints.rs:95-101, the closure handed to <(bool, u8) as Shrink>::step.
RecomposedProperty(p, memo, v, i, neg, abs) ==
    LET recomposed == recompose(neg, abs)
    IN  IF recomposed = None
        THEN [called |-> FALSE, ok |-> FALSE, reuse |-> memo, seen |-> FALSE,
              v |-> v]
        ELSE LET w == [v EXCEPT ![i] = Unwrap(recomposed)]
                 r == MemoProperty(p, memo, w)
             IN  [called |-> TRUE, ok |-> r.ok, reuse |-> r.reuse,
                  seen |-> r.seen, v |-> w]

Logged(log, r) ==
    IF r.called THEN Append(log, [v |-> r.v, seen |-> r.seen, ok |-> r.ok]) ELSE log

\* ints.rs:143-188 under the closure of tuples.rs:25-40: the ladder on abs
\* with the sign held at neg.
RECURSIVE LadderAbs(_, _, _, _, _, _, _, _)

\* ints.rs:156-162: the candidate was offered, with outcome r.
LadderAbsOffered(abs, neg, v, i, p, shift, log, difference, r) ==
    IF r.ok
    THEN [res |-> Some(difference), reuse |-> r.reuse, tried |-> Logged(log, r)]
    ELSE LadderAbs(abs, neg, v, i, p, r.reuse, shift + 1, Logged(log, r))

LadderAbs(abs, neg, v, i, p, memo, shift, log) ==
    IF shift >= BITS \/ abs \div (2 ^ shift) = 0
    THEN [res |-> None, reuse |-> memo, tried |-> log]
    ELSE LadderAbsOffered(abs, neg, v, i, p, shift, log,
                          abs - (abs \div (2 ^ shift)),
                          RecomposedProperty(p, memo, v, i, neg,
                                             abs - (abs \div (2 ^ shift))))

\* The closure not called: nothing offered, nothing remembered.
NotCalled(memo, v) ==
    [called |-> FALSE, ok |-> FALSE, reuse |-> memo, seen |-> FALSE, v |-> v]

\* Faulty variant: the negation is offered for a positive value as well.
NegatedOfAny(v, i, p, memo) ==
    IF v[i] # 0 /\ v[i] # I8_MIN
    THEN IF v[i] < 0
         THEN RecomposedProperty(p, memo, v, i, FALSE, -v[i])
         ELSE RecomposedProperty(p, memo, v, i, TRUE, v[i])
    ELSE NotCalled(memo, v)

\* ints.rs:88-93: the negation first, when there is one.
Negated(v, i, p, memo) ==
    IF v[i] < 0 /\ v[i] # I8_MIN
    THEN RecomposedProperty(p, memo, v, i, FALSE, -v[i])
    ELSE NotCalled(memo, v)

\* Faulty variant: a negative value is only ever offered its negation.
StepSignedNegationOnly(v, i, p, memo, log) ==
    LET flip == Negated(v, i, p, memo)
    IN  IF flip.ok
        THEN [res |-> Some(-v[i]), reuse |-> flip.reuse, tried |-> Logged(log, flip)]
        ELSE IF v[i] < 0
             THEN [res |-> None, reuse |-> flip.reuse, tried |-> Logged(log, flip)]
             ELSE LadderAbs(v[i], FALSE, v, i, p, flip.reuse, 0, Logged(log, flip))

\* ints.rs:95-102: what step returns, given what the tuple's tail returned.
StepSignedEnds(neg, abs, shrunken, tail) ==
    [res |-> IF tail.res # None
             THEN recompose(IF shrunken THEN FALSE ELSE neg, Unwrap(tail.res))
             ELSE IF shrunken THEN recompose(FALSE, abs) ELSE None,
     reuse |-> tail.reuse, tried |-> tail.tried]

\* tuples.rs:33-38: the tail (the absolute value) against the new sign when
\* the sign shrank, against the old sign otherwise; `head` is the outcome of
\* offering the sign `false`.
StepSignedTail(v, i, p, neg, abs, log, head) ==
    StepSignedEnds(neg, abs, head.ok,
                   LadderAbs(abs, IF head.ok THEN FALSE ELSE neg, v, i, p,
                             head.reuse, 0, Logged(log, head)))

\* ints.rs:260-265 under tuples.rs:31: bool::step of the sign, then the tail.
StepSignedHead(v, i, p, neg, abs, memo, log) ==
    StepSignedTail(v, i, p, neg, abs, log,
                   IF neg THEN RecomposedProperty(p, memo, v, i, FALSE, abs)
                   ELSE NotCalled(memo, v))

\* ints.rs:88-102, with `flip` the outcome of offering the negation.
StepSignedFrom(v, i, p, log, flip) ==
    IF flip.ok
    THEN [res |-> Some(-v[i]), reuse |-> flip.reuse, tried |-> Logged(log, flip)]
    ELSE StepSignedHead(v, i, p, v[i] < 0, IF v[i] < 0 THEN -v[i] ELSE v[i],
                        flip.reuse, Logged(log, flip))

StepSigned(v, i, p, memo, log) ==
    StepSignedFrom(v, i, p, log, Negated(v, i, p, memo))

(***************************************************************************)
(* Shrink::step of Vec<T>, whose implementation is not part of the         *)
(* sources at hand; it is modelled as its description gives it.  Phase 1   *)
(* searches for a smaller contiguous sub-slice: the jump starts at two to  *)
(* the half of the bit length of the length and halves each round, every   *)
(* round offering the vector without its first `jump` elements and then    *)
(* without its last `jump` elements.  Phase 2 offers the vector without    *)
(* one element, for every index but the first.  Phase 3 steps the elements *)
(* in place, first index first.  The first candidate the property accepts  *)
(* is the step.                                                            *)
(***************************************************************************)
RECURSIVE BitLength(_)
BitLength(n) == IF n = 0 THEN 0 ELSE 1 + BitLength(n \div 2)

RECURSIVE SubSlices(_, _)
SubSlices(v, jump) ==
    IF jump = 0 \/ v = <<>>
    THEN <<>>
    ELSE LET j == IF jump > Len(v) THEN Len(v) ELSE jump
         IN  <<SubSeq(v, j + 1, Len(v)), SubSeq(v, 1, Len(v) - j)>>
                 \o SubSlices(v, jump \div 2)

RECURSIVE WithoutInterior(_, _)
WithoutInterior(v, i) ==
    IF i > Len(v)
    THEN <<>>
    ELSE <<SubSeq(v, 1, i - 1) \o SubSeq(v, i + 1, Len(v))>>
             \o WithoutInterior(v, i + 1)

RECURSIVE FirstAccepted(_, _, _, _)

FirstAcceptedOffered(candidates, p, log, r) ==
    IF r.ok
    THEN [res |-> Some(Head(candidates)), reuse |-> r.reuse,
          tried |-> Append(log, [v |-> Head(candidates), seen |-> r.seen, ok |-> r.ok])]
    ELSE FirstAccepted(Tail(candidates), p, r.reuse,
                       Append(log, [v |-> Head(candidates), seen |-> r.seen, ok |-> r.ok]))

FirstAccepted(candidates, p, memo, log) ==
    IF candidates = <<>>
    THEN [res |-> None, reuse |-> memo, tried |-> log]
    ELSE FirstAcceptedOffered(candidates, p, log,
                              MemoProperty(p, memo, Head(candidates)))

RECURSIVE StepElements(_, _, _, _, _)

StepElementsStepped(v, i, p, r) ==
    IF r.res # None
    THEN [res |-> Some([v EXCEPT ![i] = Unwrap(r.res)]),
          reuse |-> r.reuse, tried |-> r.tried]
    ELSE StepElements(v, i + 1, p, r.reuse, r.tried)

StepElements(v, i, p, memo, log) ==
    IF i > Len(v)
    THEN [res |-> None, reuse |-> memo, tried |-> log]
    ELSE StepElementsStepped(v, i, p, StepSigned(v, i, p, memo, log))

StepVecFrom(self, p, structural) ==
    IF structural.res # None
    THEN structural
    ELSE StepElements(self, 1, p, structural.reuse, structural.tried)

StepVec(self, p, memo) ==
    StepVecFrom(self, p,
                FirstAccepted(SubSlices(self, 2 ^ (BitLength(Len(self)) \div 2))
                                  \o WithoutInterior(self, 2), p, memo, <<>>))

(***************************************************************************)
(* pbt-macros step_body_for_enum (lib.rs:2308-2548) at an enum of unit     *)
(* variants: the match arm of variant V loops, for each variant declared   *)
(* before V in declaration order, over the corners of its field tuple (the *)
(* one corner of `()`, impls/tuples.rs:13-16) and returns the first that   *)
(* the property accepts; then come V's own fields, of which a unit variant *)
(* has none (step_fields, lib.rs:2066: None).                              *)
(***************************************************************************)
EnumValue(variant) == [variant |-> variant]

RECURSIVE StepEnumFrom(_, _, _, _, _)
StepEnumFrom(self, p, memo, earlier, log) ==
    IF earlier >= self.variant
    THEN [res |-> None, reuse |-> memo, tried |-> log]
    ELSE LET r == MemoProperty(p, memo, EnumValue(earlier))
             log2 == Append(log, [v |-> EnumValue(earlier), seen |-> r.seen,
                                  ok |-> r.ok])
         IN  IF r.ok
             THEN [res |-> Some(EnumValue(earlier)), reuse |-> r.reuse,
                   tried |-> log2]
             ELSE StepEnumFrom(self, p, r.reuse, earlier + 1, log2)

\* Faulty variant: the earlier variants are tried from the nearest one down.
RECURSIVE StepEnumDownFrom(_, _, _, _, _)
StepEnumDownFrom(self, p, memo, earlier, log) ==
    IF earlier < 0
    THEN [res |-> None, reuse |-> memo, tried |-> log]
    ELSE LET r == MemoProperty(p, memo, EnumValue(earlier))
             log2 == Append(log, [v |-> EnumValue(earlier), seen |-> r.seen,
                                  ok |-> r.ok])
         IN  IF r.ok
             THEN [res |-> Some(EnumValue(earlier)), reuse |-> r.reuse,
                   tried |-> log2]
             ELSE StepEnumDownFrom(self, p, r.reuse, earlier - 1, log2)

StepEnumNearestFirst(self, p, memo) ==
    StepEnumDownFrom(self, p, memo, self.variant - 1, <<>>)

StepEnum(self, p, memo) == StepEnumFrom(self, p, memo, 0, <<>>)

Step(T, self, p, memo) ==
    CASE T.k = "ring"  -> RingStep(self, p, memo)
      [] T.k = "enum"  -> StepEnum(self, p, memo)
      [] T.k = "Vec<i8>" -> StepVec(self, p, memo)
      [] T.k = "Peano" -> StepPeano(self, p, memo)
      [] T.k = "Pair"  -> StepPair(self, p, memo)
      [] OTHER         -> StepUnsigned(self, p, memo)

\* shrink.rs:10-26, minimal as a function of its arguments: the value it returns.
RECURSIVE MinimalFrom(_, _, _, _)

\* shrink.rs:22-25, the while-let loop on the Option the last step returned.
MinimalWhile(T, a, p, r) ==
    IF r.res = None THEN a ELSE MinimalFrom(T, Unwrap(r.res), p, r.reuse)

MinimalFrom(T, a, p, memo) == MinimalWhile(T, a, p, Step(T, a, p, memo))

Minimal(T, v, p) == MinimalFrom(T, v, p, {})

(***************************************************************************)
(* shrink.rs:10-26, minimal.  MinimalFirst is the first step call (line    *)
(* 19, with the fresh `reuse` of line 11); MinimalLoop is one iteration of *)
(* the while-let loop (lines 22-24) or its exit (line 25).                 *)
(***************************************************************************)
MaxSteps == 300

\* shrink.rs:19-25: what minimal does with the Option a step call returned,
\* r; `from` is the value that was stepped and `sofar` the values accepted
\* before this call.
MinimalTakes(r, from, sofar) ==
    /\ reuse' = r.reuse
    /\ tried' = r.tried
    /\ IF r.res = None
       THEN /\ result' = Some(from)
            /\ pc' = "returned"
            /\ UNCHANGED <<acc, accepted>>
       ELSE /\ acc' = Unwrap(r.res)
            /\ accepted' = Append(sofar, Unwrap(r.res))
            /\ pc' = "loop"
            /\ UNCHANGED result

MinimalFirst ==
    /\ pc = "minimal"
    /\ steps' = 1
    /\ MinimalTakes(Step(ty, t, property, {}), t, <<>>)
    /\ UNCHANGED <<ty, t, property, witnessVars, splitVars, iterVars>>

MinimalLoop ==
    /\ pc = "loop"
    /\ steps < MaxSteps
    /\ steps' = steps + 1
    /\ MinimalTakes(Step(ty, acc, property, reuse), acc, accepted)
    /\ UNCHANGED <<ty, t, property, witnessVars, splitVars, iterVars>>

(***************************************************************************)
(* The pseudorandom generator.  A Seed is the record (seed, size) of       *)
(* conjure.rs:65-68.  WyRand::gen_u64 is the external wyrand crate: a      *)
(* deterministic map from a 64-bit state to (output, next state).  Words   *)
(* are modelled WordBits wide, and the generator is one of a family of     *)
(* counter-and-mix generators selected by `wy`, which every claim is       *)
(* checked against.                                                        *)
(***************************************************************************)
WordBits == 10

WordMod == 2 ^ WordBits

Word == 0 .. (WordMod - 1)

MaxKey == 3

WyRand_gen_u64(state) ==
    LET next == (state + 2 * wy + 1) % WordMod
        out  == (next * (4 * wy + 2 + (wy % 2)) + (next \div 16)) % WordMod
    IN  <<out, next>>

\* conjure.rs:161-165, Seed::prng: the output, and the Seed with its state advanced.
Prng(s) ==
    LET g == WyRand_gen_u64(s.seed)
    IN  [out |-> g[1], seed |-> [s EXCEPT !.seed = g[2]]]

\* conjure.rs:91-96, Seed::new: the state 1337_1337_1337_1337_1337, reduced
\* to the modelled word width (1337 * (10^16 + 10^12 + 10^8 + 10^4 + 1)).
SeedNew(size) ==
    LET a == 10000 % WordMod
        a2 == (a * a) % WordMod
        a3 == (a2 * a) % WordMod
        a4 == (a3 * a) % WordMod
    IN  [seed |-> (1337 * ((1 + a + a2 + a3 + a4) % WordMod)) % WordMod,
         size |-> size]

\* Faulty variant: seeds() resuming the previous iterator.
SeedsKeepState == seeds

\* conjure.rs:262-266, seeds(): Seeds(Seed::new(0)).
SeedsNew == SeedNew(0)

\* Faulty variant: the size is left as it is.
SeedsNextKeepsSize(inner) ==
    [item  |-> [seed |-> Prng(inner).out, size |-> inner.size],
     inner |-> Prng(inner).seed]

\* conjure.rs:230-242, Seeds::next: the seed handed out carries a fresh
\* prng() output and the current size; the size then grows by one.
SeedsNext(inner) ==
    LET g == Prng(inner)
    IN  [item  |-> [seed |-> g.out, size |-> inner.size],
         inner |-> [g.seed EXCEPT !.size = inner.size + 1]]

\* conjure.rs:169-171, Seed::prng_bool: the low bit of the next word.
PrngBool(s) ==
    LET g == Prng(s)
    IN  [out |-> (g.out % 2) # 0, seed |-> g.seed]

\* Faulty variant: the residue that declines is the size, not 0.
ShouldRecurseOnLastResidue(s) ==
    [out |-> ~(Prng(s).out % (s.size + 1) = s.size), seed |-> Prng(s).seed]

\* conjure.rs:182-198, Seed::should_recurse: false when the next word is a
\* multiple of size + 1 (the size is left as it is).
ShouldRecurse(s) ==
    LET g == Prng(s)
    IN  [out |-> ~(g.out % (s.size + 1) = 0), seed |-> g.seed]

(***************************************************************************)
(* conjure.rs:108-139, Seed::split::<N>, and its predecessor               *)
(* src/conjure.rs:77-98, Seed::partition::<N>.  The BinaryHeap is a        *)
(* max-heap: it is modelled by the descending sequence of its contents,    *)
(* pop taking the head and peek reading the next.                          *)
(***************************************************************************)
MaxOf(xs) == CHOOSE m \in {xs[i] : i \in DOMAIN xs} : \A i \in DOMAIN xs : xs[i] <= m

FirstAt(xs, m) == CHOOSE i \in DOMAIN xs : xs[i] = m /\ \A j \in 1 .. (i - 1) : xs[j] # m

Without(xs, i) == [j \in 1 .. (Len(xs) - 1) |-> IF j < i THEN xs[j] ELSE xs[j + 1]]

\* Faulty variant: the boundaries kept in insertion order.
HeapKeepsInsertionOrder(xs) == xs

RECURSIVE HeapFromIter(_)
HeapFromIter(xs) ==
    IF xs = <<>>
    THEN <<>>
    ELSE LET m == MaxOf(xs)
         IN  <<m>> \o HeapFromIter(Without(xs, FirstAt(xs, m)))

\* conjure.rs:116-120: k indices, each `self.prng() as usize % nz`.
RECURSIVE DrawIndices(_, _, _)
DrawIndices(s, nz, k) ==
    IF k <= 0
    THEN [seed |-> s, raw |-> <<>>, idx |-> <<>>]
    ELSE LET g    == Prng(s)
             rest == DrawIndices(g.seed, nz, k - 1)
         IN  [seed |-> rest.seed,
              raw  |-> <<g.out>> \o rest.raw,
              idx  |-> <<g.out % nz>> \o rest.idx]

\* conjure.rs:121-133: the i-th child has size pop() - peek().
Differences(heap, n) == [i \in 1 .. n |-> heap[i] - heap[i + 1]]

\* conjure.rs:129-132, 135-138: each child takes the next prng() word as its seed.
RECURSIVE ChildSeeds(_, _, _)
ChildSeeds(s, sizes, i) ==
    IF i > Len(sizes)
    THEN <<>>
    ELSE LET g == Prng(s)
         IN  <<[seed |-> g.out, size |-> sizes[i]]>> \o ChildSeeds(g.seed, sizes, i + 1)

Split(self, n) ==
    IF self.size # 0
    THEN LET d    == DrawIndices(self, self.size, n - 1)
             heap == HeapFromIter(<<0, self.size>> \o d.idx)
         IN  [children |-> ChildSeeds(d.seed, Differences(heap, n), 1),
              raw |-> d.raw, idx |-> d.idx]
    ELSE [children |-> ChildSeeds(self, [i \in 1 .. n |-> 0], 1),
          raw |-> <<>>, idx |-> <<>>]

\* src/conjure.rs:144-146, the older Seed::split: Self(self.prng()), paired
\* here with the size partition gives it.
RECURSIVE PartitionSeeds(_, _, _)
PartitionSeeds(s, sizes, i) ==
    IF i > Len(sizes)
    THEN <<>>
    ELSE LET g == Prng(s)
         IN  <<[seed |-> g.out, size |-> sizes[i]]>> \o PartitionSeeds(g.seed, sizes, i + 1)

Partition(self, size, n) ==
    IF size # 0
    THEN LET d    == DrawIndices(self, size, n - 1)
             heap == HeapFromIter(<<0, size>> \o d.idx)
         IN  [children |-> PartitionSeeds(d.seed, Differences(heap, n), 1),
              raw |-> d.raw, idx |-> d.idx]
    ELSE [children |-> PartitionSeeds(self, [i \in 1 .. n |-> 0], 1),
          raw |-> <<>>, idx |-> <<>>]

SamplesOf(r) == [i \in DOMAIN r.raw |-> [raw |-> r.raw[i], idx |-> r.idx[i]]]

SplitCall ==
    /\ pc = "split"
    /\ LET r == Split(seedIn, arity)
       IN  /\ children' = r.children
           /\ samples' = SamplesOf(r)
    /\ pc' = "returned"
    /\ UNCHANGED <<ty, t, property, acc, reuse, result, steps, accepted, tried,
                   witnessVars, seedIn, arity, iterVars>>

PartitionCall ==
    /\ pc = "partition"
    /\ LET r == Partition([seed |-> seedIn.seed], seedIn.size, arity)
       IN  /\ children' = r.children
           /\ samples' = SamplesOf(r)
    /\ pc' = "returned"
    /\ UNCHANGED <<ty, t, property, acc, reuse, result, steps, accepted, tried,
                   witnessVars, seedIn, arity, iterVars>>

(***************************************************************************)
(* Count::CARDINALITY.  `sum` is count.rs:42-51, which Result's impl calls *)
(* as of_sum (impls/result.rs:10).                                         *)
(***************************************************************************)
\* Faulty variant: the second operand of a Finite first one is not looked at.
SumFiniteFirst(self, other) ==
    CASE self = "Empty" -> other
      [] self = "Infinite" -> "Infinite"
      [] OTHER -> "Finite"

sum(self, other) ==
    CASE self = "Empty" -> other
      [] self = "Infinite" -> "Infinite"
      [] OTHER -> IF other = "Infinite" THEN "Infinite" ELSE "Finite"

\* impls/ints.rs:104-106.
CardinalityU8 == "Finite"

\* impls/tuples.rs:45-49 at `()`: no field, the accumulator stays Finite.
CardinalityUnit == "Finite"

\* pbt-macros cardinality_body_for_enum (lib.rs:244-273): fold of_sum over
\* the variants from Empty; a unit variant contributes <() as Count>::CARDINALITY.
RECURSIVE CardinalityEnum(_)
CardinalityEnum(n) ==
    IF n = 0 THEN "Empty" ELSE sum(CardinalityEnum(n - 1), CardinalityUnit)

\* impls/boxed.rs:12-14.
CardinalityBox(c) == c

\* impls/result.rs:9-11.
CardinalityResult(c, e) == sum(c, e)

\* impls/arrays.rs:14-17: T::CARDINALITY, whatever N is.
CardinalityArray(c, n) == c

(***************************************************************************)
(* count.rs of the pbt crate: Cardinality::of_prod, the product of two     *)
(* cardinalities (Empty if either is Empty, else Infinite if either is     *)
(* Infinite, else Finite), and the marker type Inductive that the derive   *)
(* macro puts in place of Self (pbt-macros lib.rs:33-57), whose            *)
(* cardinality is Infinite.                                                *)
(***************************************************************************)
\* Faulty variant: Infinite absorbs before Empty is looked at.
ProdInfiniteFirst(self, other) ==
    CASE self = "Infinite" \/ other = "Infinite" -> "Infinite"
      [] self = "Empty" \/ other = "Empty" -> "Empty"
      [] OTHER -> "Finite"

of_prod(self, other) ==
    CASE self = "Empty" \/ other = "Empty" -> "Empty"
      [] self = "Infinite" \/ other = "Infinite" -> "Infinite"
      [] OTHER -> "Finite"

CardinalityInductive == "Infinite"

\* impls/tuples.rs:44-50: the accumulator starts Finite and takes of_prod
\* with each field's cardinality, left to right.
RECURSIVE CardinalityTuple(_)
CardinalityTuple(cs) ==
    IF cs = <<>>
    THEN CardinalityUnit
    ELSE of_prod(CardinalityTuple(SubSeq(cs, 1, Len(cs) - 1)), cs[Len(cs)])

\* pbt-macros cardinality_body_for_enum (lib.rs:244-273) at Peano, with
\* cardinality_of_variant (lib.rs:2638-2668): O is (), S is (Box<Inductive>,).
CardinalityPeano ==
    sum(sum("Empty", CardinalityTuple(<<>>)),
        CardinalityTuple(<<CardinalityBox(CardinalityInductive)>>))

\* pbt-macros cardinality_body_for_struct (lib.rs:276-326) at Pair.
CardinalityPair ==
    of_prod(of_prod("Finite", CardinalityPeano), CardinalityPeano)

RECURSIVE CARDINALITY(_)
CARDINALITY(T) ==
    CASE T.k = "u8" -> CardinalityU8
      [] T.k = "Peano" -> CardinalityPeano
      [] T.k = "Pair" -> CardinalityPair
      [] T.k = "enum" -> CardinalityEnum(T.n)
      [] T.k = "Box" -> CardinalityBox(CARDINALITY(T.of))
      [] T.k = "Result" -> CardinalityResult(CARDINALITY(T.ok), CARDINALITY(T.err))
      [] T.k = "array" -> CardinalityArray(CARDINALITY(T.of), T.n)

(***************************************************************************)
(* Conjure::conjure and Conjure::leaf.  A value of u8 is its number, of a  *)
(* derived enum its variant, of Box<T> the boxed value, of Result<T, E>    *)
(* an ok or an err, of [T; N] the sequence of its elements.                *)
(* u8 (impls/ints.rs:110-112, 22-24, 53-55): i8::leaf draws one prng()     *)
(* word and truncates it (`as i8`), and cast_unsigned reinterprets it.     *)
(***************************************************************************)
LeafU8(s) == Some(Prng(s).out % (2 ^ BITS))

ConjureU8(s) == LeafU8(s)

\* pbt-macros leaf_body_for_enum (lib.rs:1787-2000): the leaves are the
\* Finite variants (conjure.rs:253-260), here all n; none gives Uninstantiable.
LeafEnum(n, s) ==
    IF n = 0
    THEN None
    ELSE Some([variant |-> Prng(s).out % n])

\* pbt-macros conjure_body_for_enum (lib.rs:1078-1469): with no Infinite
\* variant the internal nodes are none, and the recursing branch falls back
\* to the leaves.
ConjureEnum(n, s) ==
    LET r == ShouldRecurse(s)
    IN  IF r.out
        THEN IF n = 0
             THEN None
             ELSE Some([variant |-> Prng(r.seed).out % n])
        ELSE LeafEnum(n, r.seed)

RECURSIVE Conjure(_, _), Leaf(_, _), ConjureEach(_, _, _, _), LeafEach(_, _, _, _)

\* impls/boxed.rs:18-20.
ConjureBox(T, s) ==
    LET v == Conjure(T, s)
    IN  IF v = None THEN None ELSE Some([boxed |-> Unwrap(v)])

\* impls/boxed.rs:36-38.
LeafBox(T, s) ==
    LET v == Leaf(T, s)
    IN  IF v = None THEN None ELSE Some([boxed |-> Unwrap(v)])

\* impls/result.rs:15-28.
ConjureResult(T, E, s) ==
    LET asOk(v)  == IF v = None THEN None ELSE Some([ok |-> Unwrap(v)])
        asErr(v) == IF v = None THEN None ELSE Some([err |-> Unwrap(v)])
        b        == PrngBool(s)
    IN  CASE CARDINALITY(T) = "Empty" /\ CARDINALITY(E) = "Empty" -> None
          [] CARDINALITY(T) = "Empty" /\ CARDINALITY(E) # "Empty" -> asErr(Conjure(E, s))
          [] CARDINALITY(T) # "Empty" /\ CARDINALITY(E) = "Empty" -> asOk(Conjure(T, s))
          [] OTHER -> IF b.out THEN asErr(Conjure(E, b.seed)) ELSE asOk(Conjure(T, b.seed))

\* impls/result.rs:51-64.
LeafResult(T, E, s) ==
    LET asOk(v)  == IF v = None THEN None ELSE Some([ok |-> Unwrap(v)])
        asErr(v) == IF v = None THEN None ELSE Some([err |-> Unwrap(v)])
        b        == PrngBool(s)
    IN  CASE CARDINALITY(T) = "Empty" /\ CARDINALITY(E) = "Empty" -> None
          [] CARDINALITY(T) = "Empty" /\ CARDINALITY(E) # "Empty" -> asErr(Leaf(E, s))
          [] CARDINALITY(T) # "Empty" /\ CARDINALITY(E) = "Empty" -> asOk(Leaf(T, s))
          [] OTHER -> IF b.out THEN asErr(Leaf(E, b.seed)) ELSE asOk(Leaf(T, b.seed))

\* impls/arrays.rs:25-29: the elements are conjured in order, and the
\* first Uninstantiable is returned.
ConjureEach(T, seedsOf, i, done) ==
    IF i > Len(seedsOf)
    THEN Some(done)
    ELSE LET v == Conjure(T, seedsOf[i])
         IN  IF v = None THEN None ELSE ConjureEach(T, seedsOf, i + 1, Append(done, Unwrap(v)))

\* impls/arrays.rs:21-33.
ConjureArray(T, n, s) == ConjureEach(T, Split(s, n).children, 1, <<>>)

\* impls/arrays.rs:50-54.
LeafEach(T, seedsOf, i, done) ==
    IF i > Len(seedsOf)
    THEN Some(done)
    ELSE LET v == Leaf(T, seedsOf[i])
         IN  IF v = None THEN None ELSE LeafEach(T, seedsOf, i + 1, Append(done, Unwrap(v)))

\* impls/arrays.rs:47-58.
LeafArray(T, n, s) == LeafEach(T, Split(s, n).children, 1, <<>>)

(***************************************************************************)
(* Conjure for Peano.  VariantsPeano is the table of pbt-macros            *)
(* variants_body_for_enum (lib.rs:432-838): per variant the cardinality of *)
(* its field tuple, with Self left in place, and its constructor.          *)
(***************************************************************************)
VariantsPeano ==
    << [cardinality |-> CardinalityTuple(<<>>), ctor |-> "O"],
       [cardinality |-> CardinalityTuple(<<CardinalityBox(CardinalityPeano)>>),
        ctor |-> "S"] >>

\* conjure.rs:272-286, variants(): the constructors by cardinality, in order.
RECURSIVE VariantsOf(_, _)
VariantsOf(vs, c) ==
    IF vs = <<>>
    THEN <<>>
    ELSE (IF Head(vs).cardinality = c THEN <<Head(vs).ctor>> ELSE <<>>)
             \o VariantsOf(Tail(vs), c)

internal_nodes(vs) == VariantsOf(vs, "Infinite")

\* Faulty variant: every constructor counts as a leaf.
LeavesOfAnyCardinality(vs) == [i \in 1 .. Len(vs) |-> vs[i].ctor]

leaves(vs) == VariantsOf(vs, "Finite")

(***************************************************************************)
(* The nested calls of Peano::conjure all run at the size of the outermost *)
(* one (split::<1> keeps the size, conjure.rs:108-139), so a call that     *)
(* meets a seed word an enclosing call already had repeats that call's     *)
(* recursion for ever: the call does not return.  Diverges stands for that *)
(* outcome, `above` is the set of seed words of the enclosing calls and    *)
(* `outer` the number of S constructors they will wrap around the result.  *)
(***************************************************************************)
Diverges == <<"no", "return">>

\* lib.rs:1078-1469 (recurse TRUE: conjure, after should_recurse) and
\* 1787-2000 (recurse FALSE: leaf): the constructor drawn with one word,
\* among the internal nodes when recursing and there are some, among the
\* leaves otherwise, and the seed it is called with.
DrawnVariant(vs, s, recurse) ==
    LET r    == IF recurse THEN ShouldRecurse(s) ELSE [out |-> FALSE, seed |-> s]
        from == IF r.out /\ internal_nodes(vs) # <<>>
                THEN internal_nodes(vs)
                ELSE leaves(vs)
        g    == Prng(r.seed)
    IN  IF from = <<>>
        THEN [ctor |-> None, seed |-> g.seed]
        ELSE [ctor |-> Some(from[(g.out % Len(from)) + 1]), seed |-> g.seed]

\* pbt-macros conjure_body_for_enum (lib.rs:1078-1469) and the constructors
\* of variants_body_for_enum (lib.rs:432-838) at Peano: O is the value, S
\* conjures its field tuple (impls/tuples.rs:55-58) from the split seed.
RECURSIVE ConjurePeanoAt(_, _, _, _)
ConjurePeanoAt(s, recurse, above, outer) ==
    IF s.seed \in above
    THEN Diverges
    ELSE LET drawn == DrawnVariant(VariantsPeano, s, recurse)
         IN  CASE drawn.ctor = None -> None
               [] drawn.ctor = Some("O") -> Some(outer)
               [] OTHER -> ConjurePeanoAt(Split(drawn.seed, 1).children[1], TRUE,
                                          above \cup {s.seed}, outer + 1)

ConjurePeano(s) == ConjurePeanoAt(s, TRUE, {}, 0)

\* pbt-macros leaf_body_for_enum (lib.rs:1787-2000) at Peano.
LeafPeano(s) == ConjurePeanoAt(s, FALSE, {}, 0)

\* The Pair of two conjured fields.
PairOf(a, b) ==
    IF a = Diverges \/ b = Diverges
    THEN Diverges
    ELSE Some(<<Unwrap(a), Unwrap(b)>>)

\* impls/tuples.rs:57, the fields conjured left to right from their seeds.
ConjureFields(seedsOfFields) ==
    PairOf(ConjurePeano(seedsOfFields[1]), ConjurePeano(seedsOfFields[2]))

\* pbt-macros conjure_body_for_struct (lib.rs:1472-1633) at Pair: the
\* conjure of the field tuple (impls/tuples.rs:55-58).
ConjurePair(s) == ConjureFields(Split(s, 2).children)

Conjure(T, s) ==
    CASE T.k = "u8" -> ConjureU8(s)
      [] T.k = "Peano" -> ConjurePeano(s)
      [] T.k = "Pair" -> ConjurePair(s)
      [] T.k = "enum" -> ConjureEnum(T.n, s)
      [] T.k = "Box" -> ConjureBox(T.of, s)
      [] T.k = "Result" -> ConjureResult(T.ok, T.err, s)
      [] T.k = "array" -> ConjureArray(T.of, T.n, s)

Leaf(T, s) ==
    CASE T.k = "u8" -> LeafU8(s)
      [] T.k = "Peano" -> LeafPeano(s)
      [] T.k = "enum" -> LeafEnum(T.n, s)
      [] T.k = "Box" -> LeafBox(T.of, s)
      [] T.k = "Result" -> LeafResult(T.ok, T.err, s)
      [] T.k = "array" -> LeafArray(T.of, T.n, s)

ConjureCall ==
    /\ pc = "conjure"
    /\ result' = Conjure(ty, seedIn)
    /\ pc' = "returned"
    /\ UNCHANGED <<ty, t, property, acc, reuse, steps, accepted, tried,
                   witnessVars, splitVars, iterVars>>

LeafCall ==
    /\ pc = "leaf"
    /\ result' = Leaf(ty, seedIn)
    /\ pc' = "returned"
    /\ UNCHANGED <<ty, t, property, acc, reuse, steps, accepted, tried,
                   witnessVars, splitVars, iterVars>>

(***************************************************************************)
(* lib.rs:21-35, witness.  WitnessTrial is one iteration of the for loop   *)
(* over seeds().take(N_TRIALS): take the next seed, conjure, test the      *)
(* predicate.  On Uninstantiable it returns Err(NotFound) (result None);   *)
(* on success it hands the candidate to minimal, whose return value it     *)
(* returns as Ok.  WitnessExhausted is the fall-through of line 34.        *)
(***************************************************************************)
N_TRIALS == 1000

\* Faulty variant: one more candidate conjured after the first success.
WitnessTrialConjuresOneMore ==
    LET nx  == SeedsNext(seeds)
        w   == Conjure(ty, nx.item)
        nx2 == SeedsNext(nx.inner)
        w2  == Conjure(ty, nx2.item)
    IN  IF w # None /\ Holds(property, Unwrap(w))
        THEN /\ seeds' = nx2.inner
             /\ trials' = trials + 2
             /\ trace' = trace \o <<[seed |-> nx.item, conjured |-> w],
                                    [seed |-> nx2.item, conjured |-> w2]>>
             /\ tested' = tested + 1
             /\ t' = Unwrap(w)
             /\ pc' = "minimal"
             /\ UNCHANGED result
        ELSE /\ seeds' = nx.inner
             /\ trials' = trials + 1
             /\ trace' = Append(trace, [seed |-> nx.item, conjured |-> w])
             /\ IF w = None
                THEN /\ result' = None
                     /\ pc' = "returned"
                     /\ UNCHANGED <<t, tested>>
                ELSE /\ tested' = tested + 1
                     /\ UNCHANGED <<pc, t, result>>

\* Faulty variant: Uninstantiable skipped (`continue`) instead of returned.
WitnessTrialSkipsUninstantiable ==
    LET nx == SeedsNext(seeds)
        w  == Conjure(ty, nx.item)
    IN  /\ seeds' = nx.inner
        /\ trials' = trials + 1
        /\ trace' = Append(trace, [seed |-> nx.item, conjured |-> w])
        /\ IF w = None
           THEN UNCHANGED <<pc, t, result, tested>>
           ELSE /\ tested' = tested + 1
                /\ IF Holds(property, Unwrap(w))
                   THEN /\ t' = Unwrap(w)
                        /\ pc' = "minimal"
                        /\ UNCHANGED result
                   ELSE UNCHANGED <<pc, t, result>>

\* lib.rs:26-33, with nx what Seeds::next returned and w what conjure returned.
WitnessTries(nx, w) ==
    /\ seeds' = nx.inner
    /\ trials' = trials + 1
    /\ trace' = Append(trace, [seed |-> nx.item, conjured |-> w])
    /\ IF w = None
       THEN /\ result' = None
            /\ pc' = "returned"
            /\ UNCHANGED <<t, tested>>
       ELSE /\ tested' = tested + 1
            /\ IF Holds(property, Unwrap(w))
               THEN /\ t' = Unwrap(w)
                    /\ pc' = "minimal"
                    /\ UNCHANGED result
               ELSE UNCHANGED <<pc, t, result>>

WitnessTrialBody ==
    WitnessTries(SeedsNext(seeds), Conjure(ty, SeedsNext(seeds).item))

\* Faulty variant: take(N_TRIALS + 1).
WitnessLoopRunsOneMore ==
    /\ trials <= N_TRIALS
    /\ WitnessTrialBody

WitnessLoop ==
    /\ trials < N_TRIALS
    /\ WitnessTrialBody

WitnessTrial ==
    /\ pc = "witness"
    /\ Conjure(ty, SeedsNext(seeds).item) # Diverges
    /\ WitnessLoop
    /\ UNCHANGED <<ty, property, acc, reuse, steps, accepted, tried, call, wy, run, first, splitVars, iterVars>>

\* lib.rs:27, a conjure whose recursion does not end: witness never returns.
WitnessDiverges ==
    /\ pc = "witness"
    /\ trials < N_TRIALS
    /\ Conjure(ty, SeedsNext(seeds).item) = Diverges
    /\ pc' = "diverged"
    /\ UNCHANGED <<ty, t, property, acc, reuse, result, steps, accepted, tried,
                   witnessVars, splitVars, iterVars>>

WitnessExhausted ==
    /\ pc = "witness"
    /\ trials = N_TRIALS
    /\ result' = None
    /\ pc' = "returned"
    /\ UNCHANGED <<ty, t, property, acc, reuse, steps, accepted, tried, witnessVars, splitVars, iterVars>>

(***************************************************************************)
(* The caller repeats witness(predicate): a second call of lib.rs:21-35    *)
(* in the same process.  seeds() builds a fresh iterator (conjure.rs:265); *)
(* everything else a call uses is local to it.                             *)
(***************************************************************************)
WitnessAgain ==
    /\ pc = "returned"
    /\ call = "witness"
    /\ run = 1
    /\ run' = 2
    /\ first' = [result |-> result, trace |-> trace, trials |-> trials,
                 tested |-> tested,
                 shrunk |-> IF result = None THEN <<>> ELSE <<t>> \o accepted]
    /\ seeds' = SeedsNew
    /\ trials' = 0
    /\ trace' = <<>>
    /\ tested' = 0
    /\ result' = None
    /\ pc' = "witness"
    /\ UNCHANGED <<ty, t, property, acc, reuse, steps, accepted, tried, call, wy, splitVars, iterVars>>

(***************************************************************************)
(* The calls that are checked.  Direct calls of minimal at u8: every start *)
(* value against every property of the families above.  Calls of witness   *)
(* at u8 and at Void, under every generator of the family.                 *)
(***************************************************************************)
Marks == {0, 1, 2, 3, 7, 10, 42, 100, 128, 255}

PropertiesU8 ==
    [kind : {"ge"}, m : U8] \cup [kind : {"eq", "mod"}, m : Marks]
        \cup [kind : {"never", "always"}, m : {0}]

PropertiesWitness ==
    [kind : {"ge", "eq"}, m : Marks] \cup [kind : {"never", "always"}, m : {0}]

\* pbt-tests/src/lib.rs:75-105 (ge_ten, ge_42) and 123-131 (ordered_pair).
PropertiesPeano == [kind : {"ge"}, m : {10, 42}]

PropertiesPair == [kind : {"gt"}, m : {0}]

MaxPeano == 12

MaxPair == 4

\* lib.rs:68-77, the predicate of witness_vec_of_at_least_3_elements.
PropertiesVec == [kind : {"len"}, m : {3}]

MaxVecLen == 4

ElementsI8 == {I8_MIN, -3, 0, 5, I8_MAX}

VecsI8 == UNION {[1 .. n -> ElementsI8] : n \in 0 .. MaxVecLen}

(***************************************************************************)
(* The iterator combinators of pbt/src/iter.rs.  An underlying iterator is *)
(* the sequence of the items it has yet to yield; a factory is the         *)
(* sequence every iterator it builds yields.  Each next operator returns   *)
(* the item and the object after the call.                                 *)
(***************************************************************************)
\* Iterator::next of an underlying iterator (a range, a vec::IntoIter).
IterNext(iter) ==
    IF iter = <<>>
    THEN [item |-> None, iter |-> <<>>]
    ELSE [item |-> Some(Head(iter)), iter |-> Tail(iter)]

\* iter.rs:14-22, the enum Fuse.
FuseActive(iter) == [active |-> TRUE, iter |-> iter]

FuseInactive == [active |-> FALSE, iter |-> <<>>]

\* iter.rs:219-233, Fuse::next.
FuseNext(self) ==
    IF ~self.active
    THEN [item |-> None, self |-> self]
    ELSE LET r == IterNext(self.iter)
         IN  IF r.item = None
             THEN [item |-> None, self |-> FuseInactive]
             ELSE [item |-> r.item, self |-> FuseActive(r.iter)]

\* iter.rs:118-128, Fuse::reload: the new iterator is written over self.
FuseReload(self, iter) == FuseActive(iter)

\* iter.rs:111-123, what Fuse::reload assumes: no iterator is active.
FuseReloadable(self) == ~self.active

\* iter.rs:136-141, AutoReload::new.
AutoReloadNew(reload) == [fuse |-> FuseInactive, reload |-> reload]

\* Faulty variant: an iterator that ends is replaced within the same call,
\* so the None between runs is never returned.
AutoReloadSkipsNone(self) ==
    LET fuse == IF ~self.fuse.active THEN FuseReload(self.fuse, self.reload)
                ELSE self.fuse
        r == FuseNext(fuse)
        again == FuseNext(FuseReload(r.self, self.reload))
    IN  IF r.item = None
        THEN [item |-> again.item, self |-> [self EXCEPT !.fuse = again.self],
              sound |-> TRUE]
        ELSE [item |-> r.item, self |-> [self EXCEPT !.fuse = r.self],
              sound |-> TRUE]

\* iter.rs:236-246, AutoReload::next; `sound` tells whether the call of
\* Fuse::reload, if there was one, met what reload assumes.
AutoReloadNext(self) ==
    LET reloading == ~self.fuse.active
        fuse == IF reloading THEN FuseReload(self.fuse, self.reload)
                ELSE self.fuse
        r == FuseNext(fuse)
    IN  [item |-> r.item, self |-> [self EXCEPT !.fuse = r.self],
         sound |-> reloading => FuseReloadable(self.fuse)]

\* iter.rs:180-182, Cache::new.
CacheNew(iter) == [cache |-> None, iter |-> iter]

\* Faulty variant: the cached item is ignored and every call advances.
CacheAlwaysAdvances(self) ==
    LET r == IterNext(self.iter)
    IN  IF r.item = None
        THEN [item |-> None, self |-> [self EXCEPT !.iter = r.iter]]
        ELSE [item |-> r.item, self |-> [cache |-> r.item, iter |-> r.iter]]

\* Faulty variant: the item pulled is returned but not kept.
CacheNeverStores(self) ==
    IF self.cache # None
    THEN [item |-> self.cache, self |-> self]
    ELSE [item |-> IterNext(self.iter).item,
          self |-> [self EXCEPT !.iter = IterNext(self.iter).iter]]

\* iter.rs:249-268, Cache::next.
CacheNext(self) ==
    IF self.cache # None
    THEN [item |-> self.cache, self |-> self]
    ELSE LET r == IterNext(self.iter)
         IN  IF r.item = None
             THEN [item |-> None, self |-> [self EXCEPT !.iter = r.iter]]
             ELSE [item |-> r.item, self |-> [cache |-> r.item, iter |-> r.iter]]

\* iter.rs:155-173, Cache::clear on a cache that holds an item.
CacheClear(self) == [self EXCEPT !.cache = None]

\* iter.rs:148-160, what Cache::clear assumes: an element is cached.
CacheClearable(self) == self.cache # None

\* iter.rs:193-198, CartesianProduct::new.
CartesianProductNew(head, tail) ==
    [head |-> CacheNew(head), tail |-> AutoReloadNew(tail)]

\* iter.rs:279-285, CartesianProduct::next: the loop, one iteration per
\* head whose tail run has just ended.  `sound` tells whether every
\* Fuse::reload and Cache::clear called so far met what it assumes.
RECURSIVE CartesianProductLoop(_, _)
CartesianProductLoop(self, sound) ==
    LET head == CacheNext(self.head)
    IN  IF head.item = None
        THEN [item |-> None, self |-> [self EXCEPT !.head = head.self],
              sound |-> sound]
        ELSE LET tail == AutoReloadNext(self.tail)
             IN  IF tail.item # None
                 THEN [item |-> Some(<<Unwrap(head.item), Unwrap(tail.item)>>),
                       self |-> [head |-> head.self, tail |-> tail.self],
                       sound |-> sound /\ tail.sound]
                 ELSE CartesianProductLoop(
                          [head |-> CacheClear(head.self), tail |-> tail.self],
                          sound /\ tail.sound /\ CacheClearable(head.self))

\* Faulty variant: the head's cache is cleared once more when the heads
\* have run out.
CartesianProductClearsAtEnd(self) ==
    IF CartesianProductLoop(self, TRUE).item # None
    THEN CartesianProductLoop(self, TRUE)
    ELSE [item |-> None,
          self |-> [CartesianProductLoop(self, TRUE).self
                       EXCEPT !.head = CacheClear(@)],
          sound |-> /\ CartesianProductLoop(self, TRUE).sound
                    /\ CacheClearable(CartesianProductLoop(self, TRUE).self.head)]

CartesianProductNext(self) == CartesianProductLoop(self, TRUE)

\* iter.rs:210-215, RemoveDuplicates::new.
RemoveDuplicatesNew(iter) == [iter |-> iter, seen |-> {}]

\* Faulty variant: only the item yielded just before is remembered.
RECURSIVE RemoveDuplicatesAdjacentOnly(_)
RemoveDuplicatesAdjacentOnly(self) ==
    LET r == IterNext(self.iter)
    IN  IF r.item = None
        THEN [item |-> None, self |-> [self EXCEPT !.iter = r.iter]]
        ELSE IF Unwrap(r.item) \in self.seen
             THEN RemoveDuplicatesAdjacentOnly([self EXCEPT !.iter = r.iter])
             ELSE [item |-> r.item,
                   self |-> [iter |-> r.iter, seen |-> {Unwrap(r.item)}]]

\* iter.rs:298-305, RemoveDuplicates::next: the loop skips what `seen` holds.
RECURSIVE RemoveDuplicatesNext(_)
RemoveDuplicatesNext(self) ==
    LET r == IterNext(self.iter)
    IN  IF r.item = None
        THEN [item |-> None, self |-> [self EXCEPT !.iter = r.iter]]
        ELSE IF Unwrap(r.item) \in self.seen
             THEN RemoveDuplicatesNext([self EXCEPT !.iter = r.iter])
             ELSE [item |-> r.item,
                   self |-> [iter |-> r.iter,
                             seen |-> self.seen \cup {Unwrap(r.item)}]]

IdleIter ==
    /\ object = <<>>
    /\ given = <<>>
    /\ returned = <<>>

IdleShrink ==
    /\ acc = 0
    /\ reuse = {}
    /\ result = None
    /\ steps = 0
    /\ accepted = <<>>
    /\ tried = <<>>

IdleWitness ==
    /\ seeds = SeedNew(0)
    /\ trials = 0
    /\ trace = <<>>
    /\ tested = 0
    /\ run = 1
    /\ first = None

IdleSplit ==
    /\ seedIn = SeedNew(0)
    /\ arity = 0
    /\ samples = <<>>
    /\ children = <<>>
    /\ IdleIter

InitMinimal ==
    /\ call = "minimal"
    /\ pc = "minimal"
    /\ ty = TyU8
    /\ t \in U8
    /\ property \in PropertiesU8
    /\ wy = 0
    /\ IdleShrink
    /\ IdleWitness
    /\ IdleSplit

InitWitness ==
    /\ call = "witness"
    /\ pc = "witness"
    /\ ty \in {TyU8, TyVoid}
    /\ t = 0
    /\ property \in PropertiesWitness
    /\ wy \in 0 .. MaxKey
    /\ IdleShrink
    /\ IdleWitness
    /\ IdleSplit

\* The enum of unit variants that step is checked at.
MaxStepVariants == 4

EnumValues(n) == {EnumValue(i) : i \in 0 .. n - 1}

\* Direct calls of minimal at Peano, at Pair, at Vec<i8> and at an enum of
\* unit variants.
InitMinimalDerived ==
    /\ call = "minimal"
    /\ pc = "minimal"
    /\ \/ /\ ty = TyPeano
          /\ t \in 0 .. MaxPeano
          /\ property \in [kind : {"ge"}, m : 0 .. MaxPeano]
       \/ /\ ty = TyVecI8
          /\ t \in VecsI8
          /\ property \in PropertiesVec
       \/ /\ ty = TyPair
          /\ t \in (0 .. MaxPair) \X (0 .. MaxPair)
          /\ property \in PropertiesPair
       \/ /\ ty = TyEnum(MaxStepVariants)
          /\ t \in EnumValues(MaxStepVariants)
          /\ property \in [kind : {"in"}, m : SUBSET EnumValues(MaxStepVariants)]
    /\ wy = 0
    /\ IdleShrink
    /\ IdleWitness
    /\ IdleSplit

\* Calls of witness at Peano and at Pair, as the tests of pbt-tests make them.
InitWitnessDerived ==
    /\ call = "witness"
    /\ pc = "witness"
    /\ \/ ty = TyPeano /\ property \in PropertiesPeano
       \/ ty = TyPair /\ property \in PropertiesPair
    /\ t = 0
    /\ wy \in 0 .. MaxKey
    /\ IdleShrink
    /\ IdleWitness
    /\ IdleSplit

Init == InitMinimal \/ InitWitness \/ InitMinimalDerived \/ InitWitnessDerived

Next ==
    \/ MinimalFirst
    \/ MinimalLoop
    \/ WitnessTrial
    \/ WitnessDiverges
    \/ WitnessExhausted
    \/ WitnessAgain

Spec == Init /\ [][Next]_vars

(***************************************************************************)
(* minimal at the ring type: every start value, every property (a set of   *)
(* accepted values).                                                       *)
(***************************************************************************)
InitRing ==
    /\ call = "minimal"
    /\ pc = "minimal"
    /\ ty = TyRing
    /\ t \in Ring
    /\ property \in [kind : {"in"}, m : SUBSET Ring]
    /\ wy = 0
    /\ IdleShrink
    /\ IdleWitness
    /\ IdleSplit

NextRing == MinimalFirst \/ MinimalLoop

SpecRing == InitRing /\ [][NextRing]_vars

(***************************************************************************)
(* Seed::split and partition: every child count up to MaxN, every size up  *)
(* to MaxSize, seeds of every state up to MaxSeedWord, every generator.    *)
(***************************************************************************)
MaxN == 4

MaxSize == 4

MaxSeedWord == 7

SeedsIn == [seed : 0 .. MaxSeedWord, size : 0 .. MaxSize]

IdleCall ==
    /\ ty = TyU8
    /\ t = 0
    /\ property = [kind |-> "always", m |-> 0]
    /\ IdleShrink
    /\ IdleWitness
    /\ samples = <<>>
    /\ children = <<>>
    /\ IdleIter

InitSplit ==
    /\ call \in {"split", "partition"}
    /\ pc = call
    /\ wy \in 0 .. MaxKey
    /\ seedIn \in SeedsIn
    /\ arity \in 0 .. MaxN
    /\ IdleCall

NextSplit == SplitCall \/ PartitionCall

SpecSplit == InitSplit /\ [][NextSplit]_vars

(***************************************************************************)
(* conjure and leaf at every type built from u8 and the derived enums of   *)
(* up to MaxVariants unit variants by two rounds of Box, Result and arrays *)
(* of up to MaxArrayLen elements.                                          *)
(***************************************************************************)
MaxVariants == 1

MaxArrayLen == 1

BaseTypes == {TyU8} \cup {TyEnum(n) : n \in 0 .. MaxVariants}

Compose(S) ==
    S \cup {TyBox(T) : T \in S}
      \cup {TyResult(T, E) : T \in S, E \in S}
      \cup {TyArray(T, n) : T \in S, n \in 0 .. MaxArrayLen}

Types == Compose(Compose(BaseTypes))

InitConjure ==
    /\ call \in {"conjure", "leaf"}
    /\ pc = call
    /\ wy \in 0 .. MaxKey
    /\ ty \in Types
    /\ seedIn \in [seed : 0 .. MaxSeedWord, size : 0 .. 1]
    /\ arity = 0
    /\ t = 0
    /\ property = [kind |-> "always", m |-> 0]
    /\ IdleShrink
    /\ IdleWitness
    /\ samples = <<>>
    /\ children = <<>>
    /\ IdleIter

NextConjure == ConjureCall \/ LeafCall

SpecConjure == InitConjure /\ [][NextConjure]_vars

(***************************************************************************)
(* The iterator combinators, each built from every sequence of up to       *)
(* MaxIterLen items and called up to MaxCalls times.                       *)
(***************************************************************************)
MaxItem == 2

MaxIterLen == 3

MaxCalls == 11

Items == 0 .. MaxItem

Iterators == UNION {[1 .. n -> Items] : n \in 0 .. MaxIterLen}

\* The underlying iterator the combinator pulls its items from.
Underlying(c, self) ==
    CASE c = "CartesianProduct" -> self.head.iter
      [] c = "AutoReload" -> self.fuse.iter
      [] OTHER -> self.iter

\* What one call leaves behind: the object as the call left it, and in
\* `returned` the call, the item it returned and how many items the
\* underlying iterator still holds.
IterReturns(op, r) ==
    /\ object' = r.self
    /\ returned' = Append(returned,
                          [op |-> op, item |-> r.item,
                           left |-> Len(Underlying(call, r.self))])
    /\ UNCHANGED <<given, shrinkVars, witnessVars, splitVars>>

IterCallable(c) ==
    /\ call = c
    /\ pc = "iterating"
    /\ Len(returned) < MaxCalls

\* A call that met what Fuse::reload and Cache::clear assume returns; one
\* that did not has panicked (test and debug builds, iter.rs:119-123 and
\* 156-160) or has written over a live iterator or dropped a value that is
\* not there, after which nothing is known of the program.
ReturnsIfSound(op, r) ==
    IF r.sound
    THEN IterReturns(op, r)
    ELSE /\ pc' \in {"panicked", "undefined"}
         /\ UNCHANGED <<ty, t, property, acc, reuse, result, steps, accepted,
                        tried, witnessVars, splitVars, iterVars>>

\* iter.rs:271-287, one call of CartesianProduct::next.
CartesianProductCall ==
    /\ IterCallable("CartesianProduct")
    /\ ReturnsIfSound("next", CartesianProductNext(object))

\* iter.rs:236-246, one call of AutoReload::next.
AutoReloadCall ==
    /\ IterCallable("AutoReload")
    /\ IterReturns("next", AutoReloadNext(object))

\* iter.rs:249-268, one call of Cache::next.
CacheCall ==
    /\ IterCallable("Cache")
    /\ IterReturns("next", CacheNext(object))

\* iter.rs:155-173, one call of Cache::clear on a cache that holds an item.
CacheClearCall ==
    /\ IterCallable("Cache")
    /\ object.cache # None
    /\ IterReturns("clear", [item |-> None, self |-> CacheClear(object)])

\* iter.rs:155-173, Cache::clear on an empty cache: a panic in a test or
\* debug build (156-160), unreachable_unchecked otherwise (165-168), after
\* which nothing is known of the program.
CacheClearEmpty ==
    /\ IterCallable("Cache")
    /\ object.cache = None
    /\ pc' \in {"panicked", "undefined"}
    /\ UNCHANGED <<ty, t, property, acc, reuse, result, steps, accepted, tried,
                   witnessVars, splitVars, iterVars>>

\* iter.rs:290-307, one call of RemoveDuplicates::next.
RemoveDuplicatesCall ==
    /\ IterCallable("RemoveDuplicates")
    /\ IterReturns("next", RemoveDuplicatesNext(object))

InitIter ==
    /\ call \in {"CartesianProduct", "AutoReload", "Cache", "RemoveDuplicates"}
    /\ pc = "iterating"
    /\ given \in CASE call = "CartesianProduct" -> [head : Iterators, tail : Iterators]
                   [] call = "AutoReload" -> [reload : Iterators]
                   [] OTHER -> [iter : Iterators]
    /\ object = CASE call = "CartesianProduct" -> CartesianProductNew(given.head, given.tail)
                  [] call = "AutoReload" -> AutoReloadNew(given.reload)
                  [] call = "Cache" -> CacheNew(given.iter)
                  [] OTHER -> RemoveDuplicatesNew(given.iter)
    /\ returned = <<>>
    /\ ty = TyU8
    /\ t = 0
    /\ property = [kind |-> "always", m |-> 0]
    /\ wy = 0
    /\ IdleShrink
    /\ IdleWitness
    /\ seedIn = SeedNew(0)
    /\ arity = 0
    /\ samples = <<>>
    /\ children = <<>>

NextIter ==
    \/ CartesianProductCall
    \/ AutoReloadCall
    \/ CacheCall
    \/ CacheClearCall
    \/ CacheClearEmpty
    \/ RemoveDuplicatesCall

SpecIter == InitIter /\ [][NextIter]_vars

(***************************************************************************)
(* Count::CARDINALITY as the derive macro and the tuple impls compute it:  *)
(* a fold of `sum` over the variants of an enum, from Empty, and a fold of *)
(* of_prod over the fields of a struct or tuple, from Finite, over every   *)
(* sequence of up to MaxFactors cardinalities.                             *)
(***************************************************************************)
MaxFactors == 4

Cardinalities == {"Empty", "Finite", "Infinite"}

CardinalitySeqs == UNION {[1 .. n -> Cardinalities] : n \in 0 .. MaxFactors}

CountCallable(c) ==
    /\ call = c
    /\ pc = "counting"
    /\ Len(returned) < Len(given)

\* The accumulator after one more term, logged in `returned`.
CountTakes(folded) ==
    /\ object' = folded
    /\ returned' = Append(returned, folded)
    /\ UNCHANGED <<given, shrinkVars, witnessVars, splitVars>>

\* pbt-macros cardinality_body_for_enum (lib.rs:260-270): one more variant
\* is added to the accumulator.
SumCall ==
    /\ CountCallable("sum")
    /\ CountTakes(sum(object, given[Len(returned) + 1]))

\* impls/tuples.rs:47, pbt-macros cardinality_body_for_struct
\* (lib.rs:292-302): one more field is multiplied into the accumulator.
ProdCall ==
    /\ CountCallable("of_prod")
    /\ CountTakes(of_prod(object, given[Len(returned) + 1]))

InitCount ==
    /\ call \in {"sum", "of_prod"}
    /\ pc = "counting"
    /\ given \in CardinalitySeqs
    /\ object = IF call = "sum" THEN "Empty" ELSE CardinalityUnit
    /\ returned = <<>>
    /\ ty = TyU8
    /\ t = 0
    /\ property = [kind |-> "always", m |-> 0]
    /\ wy = 0
    /\ IdleShrink
    /\ IdleWitness
    /\ seedIn = SeedNew(0)
    /\ arity = 0
    /\ samples = <<>>
    /\ children = <<>>

NextCount == SumCall \/ ProdCall

SpecCount == InitCount /\ [][NextCount]_vars

(***************************************************************************)
(* Seed::should_recurse, and conjure and leaf at the recursive enum Peano, *)
(* from every seed of a size up to MaxSize.                                *)
(***************************************************************************)
\* conjure.rs:182-198, one call of should_recurse: its answer, the word it
\* drew and the seed it leaves.
ShouldRecurseCall ==
    /\ pc = "should_recurse"
    /\ result' = Some(ShouldRecurse(seedIn).out)
    /\ samples' = <<WyRand_gen_u64(seedIn.seed)[1]>>
    /\ children' = <<ShouldRecurse(seedIn).seed>>
    /\ pc' = "returned"
    /\ UNCHANGED <<ty, t, property, acc, reuse, steps, accepted, tried,
                   witnessVars, seedIn, arity, iterVars>>

InitRecurse ==
    /\ call \in {"should_recurse", "conjure", "leaf"}
    /\ pc = call
    /\ wy \in 0 .. MaxKey
    /\ ty = TyPeano
    /\ seedIn \in SeedsIn
    /\ arity = 0
    /\ t = 0
    /\ property = [kind |-> "always", m |-> 0]
    /\ IdleShrink
    /\ IdleWitness
    /\ samples = <<>>
    /\ children = <<>>
    /\ IdleIter

NextRecurse == ShouldRecurseCall \/ ConjureCall \/ LeafCall

SpecRecurse == InitRecurse /\ [][NextRecurse]_vars

(***************************************************************************)
(* <i8 as Shrink>::step called on its own (ints.rs:65-102): one call with  *)
(* every i8 and a property over i8.  The value is held as the only element *)
(* of a vector, the form under which StepSigned reaches its property.      *)
(***************************************************************************)
I8 == I8_MIN .. I8_MAX

MarksI8 == {I8_MIN, I8_MIN + 1, -64, -3, -1, 0, 1, 3, 64, I8_MAX}

AcceptedI8 ==
    {m .. I8_MAX : m \in MarksI8} \cup {I8_MIN .. m : m \in MarksI8}
        \cup {{m} : m \in MarksI8}
        \cup {{x \in I8 : x >= m \/ -x >= m} : m \in MarksI8}
        \cup {{x \in I8 : x % 2 # 0}, {}, I8}

PropertiesI8 == [kind : {"elem"}, i : {1}, m : AcceptedI8]

StepSignedCall ==
    /\ pc = "step"
    /\ LET r == StepSigned(<<t>>, 1, property, {}, <<>>)
       IN  /\ result' = r.res
           /\ reuse' = r.reuse
           /\ tried' = r.tried
           /\ accepted' = r.res
    /\ steps' = 1
    /\ pc' = "returned"
    /\ UNCHANGED <<ty, t, property, acc, witnessVars, splitVars, iterVars>>

InitSigned ==
    /\ call = "step"
    /\ pc = "step"
    /\ wy = 0
    /\ ty = TyI8
    /\ t \in I8
    /\ property \in PropertiesI8
    /\ IdleShrink
    /\ IdleWitness
    /\ IdleSplit

NextSigned == StepSignedCall

SpecSigned == InitSigned /\ [][NextSigned]_vars


(***************************************************************************)
(* Conjure::corners (conjure.rs:20).  Every implementation builds its      *)
(* iterator from the iterators of other types; the calls it makes before   *)
(* it returns are `eager`, the calls made from a closure while the         *)
(* iterator is drained are `lazy`.  `object` is the call stack, one frame  *)
(* per corners() in progress: the type, the place `at` of its next call,   *)
(* and whether the frame runs inside a drain.                              *)
(***************************************************************************)
TyTuple(fields) == [k |-> "tuple", of |-> fields]

\* pbt-macros tuples_of_fields (lib.rs:329-353): the field tuple of every
\* variant in declaration order, `Self` left in place; a struct has one.
FieldsOf(T) ==
    CASE T.k = "Peano" -> << <<>>, <<TyBox(TyPeano)>> >>
      [] T.k = "Pair"  -> << <<TyPeano, TyPeano>> >>
      [] T.k = "enum"  -> [i \in 1 .. T.n |-> <<>>]

RECURSIVE Flatten(_)
Flatten(ss) == IF ss = <<>> THEN <<>> ELSE Head(ss) \o Flatten(Tail(ss))

RECURSIVE CornersOf(_), TupleCorners(_)

\* impls/tuples.rs:13-23: `()` has the one corner (); otherwise the corners
\* of the head, and for each of them those of the rest.
TupleCorners(fields) ==
    IF fields = <<>>
    THEN << <<>> >>
    ELSE Flatten([i \in 1 .. Len(CornersOf(Head(fields))) |->
                     [j \in 1 .. Len(TupleCorners(Tail(fields))) |->
                         <<CornersOf(Head(fields))[i]>>
                             \o TupleCorners(Tail(fields))[j]]])

\* pbt-macros corners_of_fields (lib.rs:1636-1673): the constructor mapped
\* over the corners of the field tuple.
Constructed(T, variant, fields) ==
    CASE T.k = "enum" -> [variant |-> variant - 1]
      [] T.k = "Pair" -> fields

\* What the iterator yields when it is drained; defined for the types whose
\* calls all return.
CornersOf(T) ==
    CASE T.k = "i8"     -> <<0, 1, I8_MAX, I8_MIN, -1>>
      [] T.k = "u8"     -> [i \in 1 .. Len(CornersOf(TyI8)) |->
                               CornersOf(TyI8)[i] % (2 ^ BITS)]
      [] T.k = "tuple"  -> TupleCorners(T.of)
      [] T.k = "Box"    -> [i \in 1 .. Len(CornersOf(T.of)) |->
                               [boxed |-> CornersOf(T.of)[i]]]
      [] T.k = "Result" -> [i \in 1 .. Len(CornersOf(T.ok)) |->
                               [ok |-> CornersOf(T.ok)[i]]]
                           \o [i \in 1 .. Len(CornersOf(T.err)) |->
                                  [err |-> CornersOf(T.err)[i]]]
      [] T.k = "array"  -> <<>>
      [] OTHER          ->
            Flatten([v \in 1 .. Len(FieldsOf(T)) |->
                        [i \in 1 .. Len(TupleCorners(FieldsOf(T)[v])) |->
                            Constructed(T, v, TupleCorners(FieldsOf(T)[v])[i])]])

\* The call number `at` that corners() of T makes, if any:
\*   i8, bool, arrays (ints.rs:27-38, arrays.rs:36-39): none;
\*   unsigned (ints.rs:115-117): the signed type's;
\*   Box<T> (boxed.rs:22-24): T's;
\*   Result<T, E> (result.rs:31-33): T's, then E's;
\*   tuples (tuples.rs:13-23, 61-63): the head's, and from the closure of
\*     flat_map, once the head yielded something, the rest's;
\*   derived types (lib.rs:1702-1783): each variant's field tuple's, all of
\*     them arguments of `chain`, evaluated before Box::new.
CornersCalls(T, at) ==
    CASE T.k = "u8" /\ at = 1 -> Some([ty |-> TyI8, lazy |-> FALSE])
      [] T.k = "Box" /\ at = 1 -> Some([ty |-> T.of, lazy |-> FALSE])
      [] T.k = "Result" /\ at = 1 -> Some([ty |-> T.ok, lazy |-> FALSE])
      [] T.k = "Result" /\ at = 2 -> Some([ty |-> T.err, lazy |-> FALSE])
      [] T.k = "tuple" /\ at = 1 /\ T.of # <<>> ->
            Some([ty |-> Head(T.of), lazy |-> FALSE])
      [] T.k = "tuple" /\ at = 2 /\ Len(T.of) > 1 ->
            IF CornersOf(Head(T.of)) # <<>>
            THEN Some([ty |-> TyTuple(Tail(T.of)), lazy |-> TRUE])
            ELSE None
      [] T.k \in {"Peano", "Pair", "enum"} /\ at <= Len(FieldsOf(T)) ->
            Some([ty |-> TyTuple(FieldsOf(T)[at]), lazy |-> FALSE])
      [] OTHER -> None

MaxStack == 8

MaxDrains == 2

Frame(T, lazy) == [ty |-> T, at |-> 1, lazy |-> lazy]

Top == object[Len(object)]

\* A call is entered: a new frame.
CornersEnter ==
    /\ pc = "corners"
    /\ CornersCalls(Top.ty, Top.at) # None
    /\ Len(object) < MaxStack
    /\ object' = Append(object, Frame(Unwrap(CornersCalls(Top.ty, Top.at)).ty,
                                      Top.lazy
                                        \/ Unwrap(CornersCalls(Top.ty, Top.at)).lazy))
    /\ UNCHANGED <<shrinkVars, witnessVars, splitVars, given, returned>>

\* A call is entered with no room left for its frame: the stack overflows
\* and the process is aborted.
CornersOverflow ==
    /\ pc = "corners"
    /\ CornersCalls(Top.ty, Top.at) # None
    /\ Len(object) = MaxStack
    /\ pc' = "overflowed"
    /\ UNCHANGED <<ty, t, property, acc, reuse, result, steps, accepted, tried,
                   witnessVars, splitVars, iterVars>>

\* A call made by another returns to it.
CornersReturn ==
    /\ pc = "corners"
    /\ CornersCalls(Top.ty, Top.at) = None
    /\ Len(object) > 1
    /\ object' = [SubSeq(object, 1, Len(object) - 1)
                     EXCEPT ![Len(object) - 1].at = @ + 1]
    /\ UNCHANGED <<shrinkVars, witnessVars, splitVars, given, returned>>

\* The caller's iterator is exhausted: what it yielded is on record.
CornersDrained ==
    /\ pc = "corners"
    /\ CornersCalls(Top.ty, Top.at) = None
    /\ Len(object) = 1
    /\ object' = <<>>
    /\ returned' = Append(returned, CornersOf(ty))
    /\ pc' = "returned"
    /\ UNCHANGED <<ty, t, property, acc, reuse, result, steps, accepted, tried,
                   witnessVars, splitVars, given>>

\* corners() is called once more.
CornersAgain ==
    /\ call = "corners"
    /\ pc = "returned"
    /\ Len(returned) < MaxDrains
    /\ object' = <<Frame(ty, FALSE)>>
    /\ pc' = "corners"
    /\ UNCHANGED <<ty, t, property, acc, reuse, result, steps, accepted, tried,
                   witnessVars, splitVars, given, returned>>

CornerBases ==
    {TyI8, TyU8, TyTuple(<<>>), TyPeano, TyPair}
        \cup {TyEnum(n) : n \in 0 .. MaxVariants}

CornerTypes ==
    CornerBases
        \cup {TyBox(T) : T \in CornerBases}
        \cup {TyResult(T, E) : T \in CornerBases, E \in CornerBases}
        \cup {TyTuple(<<T>>) : T \in CornerBases}
        \cup {TyTuple(<<T, E>>) : T \in CornerBases, E \in CornerBases}
        \cup {TyArray(T, n) : T \in CornerBases, n \in 0 .. MaxArrayLen}

InitCorners ==
    /\ call = "corners"
    /\ pc = "corners"
    /\ wy = 0
    /\ ty \in CornerTypes
    /\ t = 0
    /\ property = [kind |-> "always", m |-> 0]
    /\ IdleShrink
    /\ IdleWitness
    /\ seedIn = SeedNew(0)
    /\ arity = 0
    /\ samples = <<>>
    /\ children = <<>>
    /\ object = <<Frame(ty, FALSE)>>
    /\ given = <<>>
    /\ returned = <<>>

NextCorners ==
    CornersEnter \/ CornersOverflow \/ CornersReturn \/ CornersDrained
        \/ CornersAgain

SpecCorners == InitCorners /\ [][NextCorners]_vars

(***************************************************************************)
(* Decomposition::shrink_horizontal_contiguous (src/src/decompose.rs:116-  *)
(* 164), the first phase of shrink_horizontal.  `t` is the counterexample, *)
(* a slice of distinct elements, so that a sub-slice is known by its       *)
(* content; `object` holds the locals jump, lhs and rhs; `given` is the    *)
(* record of the slices handed to the property, each with its index range  *)
(* lo..hi as get_unchecked received it.  A range with lo > hi or hi > len  *)
(* is undefined behaviour of get_unchecked: a build with debug assertions  *)
(* aborts, any other build goes on with a slice of whatever lies there, on *)
(* which the property may answer either way.                               *)
(***************************************************************************)
TyDecomposition == [k |-> "Decomposition"]

MaxSliceLen == 4

Smaller(a, b) == IF a < b THEN a ELSE b

\* counterexample.get_unchecked(lo..hi), for a range in bounds.
Slice(lo, hi) == SubSeq(t, lo + 1, hi)

InBounds(lo, hi) == lo <= hi /\ hi <= Len(t)

\* decompose.rs:140-143 and 152-155: the property on the slice lo..hi.
PropertyOnSlice(lo, hi) ==
    IF InBounds(lo, hi) THEN {Holds(property, Slice(lo, hi))} ELSE BOOLEAN

Probed(by, lo, hi, ok) ==
    Append(given, [by |-> by, jump |-> object.jump, lo |-> lo, hi |-> hi,
                   ok |-> ok])

\* decompose.rs:122-130: jump is isize::MIN as usize shifted right by
\* leading_zeros - 1, two to the bit length of the length; a slice is no
\* longer than isize::MAX, so leading_zeros is at least 1 and the early
\* return of `&[]` is never taken.
ContiguousEnter ==
    /\ pc = "shrink_horizontal_contiguous"
    /\ object' = [jump |-> 2 ^ BitLength(Len(t)), lhs |-> 0,
                  rhs |-> 2 ^ BitLength(Len(t))]
    /\ pc' = "while"
    /\ UNCHANGED <<ty, t, property, acc, reuse, result, steps, accepted, tried,
                   witnessVars, splitVars, given, returned>>

\* decompose.rs:131-134, the loop condition: the jump is halved and the
\* loop goes on while it is not 0.
ContiguousWhile ==
    /\ pc = "while"
    /\ object.jump \div 2 # 0
    /\ object' = [object EXCEPT !.jump = @ \div 2]
    /\ pc' = "lhs"
    /\ UNCHANGED <<ty, t, property, acc, reuse, result, steps, accepted, tried,
                   witnessVars, splitVars, given, returned>>

\* decompose.rs:163: the slice lhs..min(rhs, len) is returned.
ContiguousReturn ==
    /\ pc = "while"
    /\ object.jump \div 2 = 0
    /\ InBounds(object.lhs, Smaller(object.rhs, Len(t)))
    /\ result' = Some([lo |-> object.lhs, hi |-> Smaller(object.rhs, Len(t))])
    /\ pc' = "returned"
    /\ UNCHANGED <<ty, t, property, acc, reuse, steps, accepted, tried,
                   witnessVars, splitVars, iterVars>>

\* decompose.rs:163 with lhs beyond the end: get_unchecked is called out of
\* bounds.  The build aborts, or returns a slice that starts at lhs and
\* whose length is the difference wrapped around.
ContiguousReturnUnchecked ==
    /\ pc = "while"
    /\ object.jump \div 2 = 0
    /\ ~InBounds(object.lhs, Smaller(object.rhs, Len(t)))
    /\ result' = Some([lo |-> object.lhs, hi |-> Smaller(object.rhs, Len(t))])
    /\ pc' \in {"returned", "panicked"}
    /\ UNCHANGED <<ty, t, property, acc, reuse, steps, accepted, tried,
                   witnessVars, splitVars, iterVars>>

\* decompose.rs:137-147, "Advance `lhs` temporarily".
AdvanceLhs ==
    /\ pc = "lhs"
    /\ LET tmp_lhs == object.lhs + object.jump
           end     == Smaller(object.rhs, Len(t))
       IN  IF tmp_lhs <= Len(t)
           THEN \E ok \in PropertyOnSlice(tmp_lhs, end) :
                   /\ given' = Probed("lhs", tmp_lhs, end, ok)
                   /\ object' = IF ok THEN [object EXCEPT !.lhs = tmp_lhs]
                                ELSE object
           ELSE UNCHANGED <<object, given>>
    /\ pc' = "rhs"
    /\ UNCHANGED <<ty, t, property, acc, reuse, result, steps, accepted, tried,
                   witnessVars, splitVars, returned>>

\* decompose.rs:149-161, "Advance `rhs` temporarily".
AdvanceRhs ==
    /\ pc = "rhs"
    /\ LET tmp_rhs == object.rhs - object.jump
           end     == Smaller(object.rhs - object.jump, Len(t))
       IN  IF tmp_rhs >= Len(t)
           THEN /\ object' = [object EXCEPT !.rhs = tmp_rhs]
                /\ UNCHANGED given
           ELSE \E ok \in PropertyOnSlice(object.lhs, end) :
                   /\ given' = Probed("rhs", object.lhs, end, ok)
                   /\ object' = IF ok THEN [object EXCEPT !.rhs = tmp_rhs]
                                ELSE object
    /\ pc' = "while"
    /\ UNCHANGED <<ty, t, property, acc, reuse, result, steps, accepted, tried,
                   witnessVars, splitVars, returned>>

\* decompose.rs:142 and 154 with a range out of bounds, in a build that
\* checks the precondition of get_unchecked: the process aborts.
ProbeAborts ==
    /\ \/ /\ pc = "lhs"
          /\ object.lhs + object.jump <= Len(t)
          /\ ~InBounds(object.lhs + object.jump, Smaller(object.rhs, Len(t)))
          /\ given' = Probed("lhs", object.lhs + object.jump,
                             Smaller(object.rhs, Len(t)), FALSE)
       \/ /\ pc = "rhs"
          /\ object.rhs - object.jump < Len(t)
          /\ ~InBounds(object.lhs, Smaller(object.rhs - object.jump, Len(t)))
          /\ given' = Probed("rhs", object.lhs,
                             Smaller(object.rhs - object.jump, Len(t)), FALSE)
    /\ pc' = "panicked"
    /\ UNCHANGED <<ty, t, property, acc, reuse, result, steps, accepted, tried,
                   witnessVars, splitVars, object, returned>>

Counterexamples == {[i \in 1 .. n |-> i] : n \in 0 .. MaxSliceLen}

SubSlicesOf(c) == {SubSeq(c, i + 1, j) : i \in 0 .. Len(c), j \in 0 .. Len(c)}

InitContiguous ==
    /\ call = "shrink_horizontal_contiguous"
    /\ pc = "shrink_horizontal_contiguous"
    /\ wy = 0
    /\ ty = TyDecomposition
    /\ t \in Counterexamples
    /\ property \in [kind : {"in"}, m : SUBSET SubSlicesOf(t)]
    /\ IdleShrink
    /\ IdleWitness
    /\ IdleSplit

NextContiguous ==
    ContiguousEnter \/ ContiguousWhile \/ ContiguousReturn
        \/ ContiguousReturnUnchecked \/ AdvanceLhs \/ AdvanceRhs \/ ProbeAborts

SpecContiguous == InitContiguous /\ [][NextContiguous]_vars

(***************************************************************************)
(*                              The claims                                 *)
(***************************************************************************)
MinimalReturned == pc = "returned" /\ result # None

\* Step with an empty `reuse`: the bare property decides every candidate
\* (the ladder offers no candidate twice within one call).
IsFixpoint(T, v, p) == Step(T, v, p, {}).res = None

C2_MemoBoundsStepCalls ==
    /\ \A i, j \in DOMAIN accepted : i # j => accepted[i] # accepted[j]
    /\ \A i \in DOMAIN tried : tried[i].seen => ~tried[i].ok
    /\ steps <= RingSize + 1
    /\ pc = "loop" => steps <= RingSize

C2_Witness ==
    /\ pc = "returned"
    /\ Len(accepted) >= 2
    /\ \E i \in DOMAIN tried : tried[i].seen /\ Holds(property, tried[i].v)

\* C3: witness returns Ok(minimal(c, predicate)) for the candidate c of the
\* lowest-numbered trial whose candidate satisfies the predicate, and conjures
\* nothing for any later trial.
C3_FirstSuccessIsMinimized ==
    (call = "witness" /\ (pc \in {"minimal", "loop"} \/ MinimalReturned)) =>
        /\ trials = Len(trace)
        /\ trace[trials].conjured = Some(t)
        /\ Holds(property, t)
        /\ \A i \in 1 .. (trials - 1) :
              /\ trace[i].conjured # None
              /\ ~Holds(property, Unwrap(trace[i].conjured))
        /\ MinimalReturned => result = Some(Minimal(ty, t, property))

C3_Witness ==
    /\ call = "witness"
    /\ MinimalReturned
    /\ trials >= 3
    /\ result # Some(t)

\* C4: if the predicate rejects every conjured candidate, witness conjures and
\* tests exactly N_TRIALS candidates, one per trial, then returns Err(NotFound);
\* it never runs more than N_TRIALS trials.
C4_ExhaustsExactlyNTrials ==
    call = "witness" =>
        /\ trials <= N_TRIALS
        /\ Len(trace) = trials
        /\ ( /\ pc = "returned"
             /\ \A i \in DOMAIN trace :
                   /\ trace[i].conjured # None
                   /\ ~Holds(property, Unwrap(trace[i].conjured)) )
           => (result = None /\ trials = N_TRIALS /\ tested = N_TRIALS)

C4_Witness ==
    /\ call = "witness"
    /\ pc = "returned"
    /\ property.kind = "eq"
    /\ result = None
    /\ trials = N_TRIALS
    /\ tested = N_TRIALS

\* C5: when conjure reports Uninstantiable on a trial, witness returns
\* Err(NotFound) at once: the predicate is not evaluated on that trial and no
\* further trial runs.  At a type with zero variants that is the first trial,
\* whatever the predicate.
C5_UninstantiableEndsSearch ==
    call = "witness" =>
        /\ \A i \in DOMAIN trace :
              trace[i].conjured = None =>
                  /\ i = Len(trace)
                  /\ trials = i
                  /\ tested = i - 1
                  /\ pc = "returned"
                  /\ result = None
        /\ (ty = TyVoid /\ trials >= 1) =>
              /\ trials = 1
              /\ tested = 0
              /\ pc = "returned"
              /\ result = None

C5_Witness ==
    /\ call = "witness"
    /\ ty = TyVoid
    /\ property.kind = "always"
    /\ pc = "returned"
    /\ trials = 1
    /\ result = None

C10_ThresholdIsReached ==
    (MinimalReturned /\ ty = TyU8 /\ property.kind = "ge" /\ property.m <= t) =>
        result = Some(property.m)

C10_Witness ==
    /\ call = "witness"
    /\ MinimalReturned
    /\ property = [kind |-> "ge", m |-> 42]
    /\ t > 42
    /\ trials >= 2
    /\ result = Some(42)

SplitReturned == pc = "returned" /\ call \in {"split", "partition"}

RECURSIVE SumOfSizes(_)
SumOfSizes(cs) == IF cs = <<>> THEN 0 ELSE Head(cs).size + SumOfSizes(Tail(cs))

\* C8: for every size S >= 0 and child count N >= 1, split / partition of a
\* seed of size S into N children returns exactly N children, each of a
\* non-negative size, and the sizes add up to exactly S.
C8_ChildSizesSumToSize ==
    (SplitReturned /\ arity >= 1) =>
        /\ Len(children) = arity
        /\ \A i \in DOMAIN children : children[i].size \in 0 .. seedIn.size
        /\ SumOfSizes(children) = seedIn.size

C8_Witness ==
    /\ SplitReturned
    /\ call = "split"
    /\ arity >= 3
    /\ seedIn.size >= 3
    /\ Cardinality({i \in DOMAIN children : children[i].size > 0}) >= 3

\* C9: each of the N - 1 interior boundaries put on the heap is
\* prng() mod (size + 1), a value from 0 to size inclusive.
C9_BoundaryIsModSizePlusOne ==
    SplitReturned =>
        \A i \in DOMAIN samples : samples[i].idx = samples[i].raw % (seedIn.size + 1)

\* C6: conjure and leaf return Uninstantiable exactly at the types whose
\* cardinality is Empty: at such a type for every seed, at a Finite or
\* Infinite type for none.
C6_UninstantiableIffEmpty ==
    (pc = "returned" /\ call \in {"conjure", "leaf"}) =>
        ((result = None) <=> (CARDINALITY(ty) = "Empty"))

\* C11: at Peano with the property `p >= n`, a witness call that returns a
\* value returns the value with exactly n successors, whatever was conjured.
C11_PeanoGeShrinksToThreshold ==
    (call = "witness" /\ ty = TyPeano /\ pc = "returned" /\ result # None)
        => (Holds(property, t) /\ result = Some(property.m))

\* A witness call at Peano whose first satisfying candidate was strictly
\* above 42 and that returned S^42(O) after shrinking.
C11_Witness ==
    /\ call = "witness"
    /\ ty = TyPeano
    /\ pc = "returned"
    /\ property = [kind |-> "ge", m |-> 42]
    /\ t > 42
    /\ result = Some(42)

\* C13: at Pair with the property `p.0 > p.1`, a call that starts from a
\* satisfying pair and returns a value returns Pair(S(O), O).
C13_OrderedPairShrinksToOneZero ==
    (ty = TyPair /\ pc = "returned" /\ result # None /\ Holds(property, t))
        => result = Some(<<1, 0>>)

\* A witness call at Pair whose first satisfying candidate had a first
\* field above S(S(O)), returned as Pair(S(O), O).
C13_Witness ==
    /\ call = "witness"
    /\ ty = TyPair
    /\ pc = "returned"
    /\ t[1] > 2
    /\ result = Some(<<1, 0>>)

Yielded == [i \in 1 .. Len(returned) |-> returned[i].item]

\* Every (head, tail) pair, the head varying slowest and the tail fastest.
PairsHeadMajor(head, tail) ==
    [i \in 1 .. Len(head) * Len(tail) |->
        <<head[((i - 1) \div Len(tail)) + 1], tail[((i - 1) % Len(tail)) + 1]>>]

\* After k calls: the first k pairs have been emitted, and None ever since
\* the pairs ran out.
EmitsPairsThenNone(pairs) ==
    \A k \in 1 .. Len(returned) :
        Yielded[k] = IF k <= Len(pairs) THEN Some(pairs[k]) ELSE None

\* How many items the head iterator has handed out after k calls: one per
\* head whose tail run has begun, and all of them once None was returned.
HeadsPulledOnce(head, tail) ==
    \A k \in 1 .. Len(returned) :
        Len(head) - returned[k].left =
            IF k <= Len(head) * Len(tail)
            THEN ((k - 1) \div Len(tail)) + 1
            ELSE Len(head)

\* C14: for a finite head sequence and a tail factory that yields the same
\* finite sequence on every call, CartesianProduct emits every (head, tail)
\* pair exactly once, head slowest and tail fastest, pulls each head item from
\* the underlying head iterator only once, then returns None and keeps
\* returning None on every later call.
C14_CartesianProductHeadMajorOnce ==
    call = "CartesianProduct" =>
        /\ EmitsPairsThenNone(PairsHeadMajor(given.head, given.tail))
        /\ HeadsPulledOnce(given.head, given.tail)

\* Two heads and two tail items at least, every pair emitted and None
\* returned twice after them.
C14_Witness ==
    /\ call = "CartesianProduct"
    /\ Len(given.head) >= 2
    /\ Len(given.tail) >= 2
    /\ Len(returned) >= Len(given.head) * Len(given.tail) + 2

\* One run of the iterator the factory builds, and the None that ends it.
RunThenNone(reload) ==
    [i \in 1 .. Len(reload) + 1 |->
        IF i <= Len(reload) THEN Some(reload[i]) ELSE None]

\* Where in its run the k-th call of next falls.
PlaceInRun(reload, k) == ((k - 1) % (Len(reload) + 1)) + 1

\* C15: AutoReload yields all items of the iterator its factory produces, then
\* returns None exactly once, then on the next call builds a fresh iterator
\* from the factory and repeats, forever; its very first next() returns Some
\* if and only if the factory's iterator is non-empty.
C15_AutoReloadRepeatsForever ==
    call = "AutoReload" =>
        /\ \A k \in 1 .. Len(returned) :
               /\ Yielded[k] = RunThenNone(given.reload)[PlaceInRun(given.reload, k)]
               /\ returned[k].left =
                      IF PlaceInRun(given.reload, k) <= Len(given.reload)
                      THEN Len(given.reload) - PlaceInRun(given.reload, k)
                      ELSE 0
        /\ Len(returned) >= 1 => (Yielded[1] # None <=> given.reload # <<>>)

\* A factory of two items at least, two whole runs made and a third begun.
C15_Witness ==
    /\ call = "AutoReload"
    /\ Len(given.reload) >= 2
    /\ Len(returned) >= 2 * (Len(given.reload) + 1) + 1

\* How many items the underlying iterator holds when the k-th call is made.
LeftBefore(k) == IF k = 1 THEN Len(given.iter) ELSE returned[k - 1].left

\* The k-th call follows a next that produced an item, with no clear since.
Replays(k) ==
    /\ k > 1
    /\ returned[k - 1].op = "next"
    /\ returned[k - 1].item # None

\* C16: Cache returns a clone of the most recently produced item on every
\* next() without advancing the underlying iterator, until clear is called;
\* the first next() after a clear advances the underlying iterator by exactly
\* one item, and next() returns None only when the underlying iterator does.
C16_CacheReplaysUntilCleared ==
    call = "Cache" =>
        \A k \in 1 .. Len(returned) :
            CASE returned[k].op = "clear" -> returned[k].left = LeftBefore(k)
              [] Replays(k) ->
                    /\ returned[k].item = returned[k - 1].item
                    /\ returned[k].left = LeftBefore(k)
              [] LeftBefore(k) = 0 ->
                    /\ returned[k].item = None
                    /\ returned[k].left = 0
              [] OTHER ->
                    /\ returned[k].item =
                           Some(given.iter[Len(given.iter) - LeftBefore(k) + 1])
                    /\ returned[k].left = LeftBefore(k) - 1

\* An item is produced, cleared, a different item is produced by the next
\* call and replayed by the one after.
C16_Witness ==
    /\ call = "Cache"
    /\ \E k \in 3 .. Len(returned) - 1 :
           /\ returned[k - 2].op = "next"
           /\ returned[k - 1].op = "clear"
           /\ returned[k].op = "next"
           /\ returned[k].item # None
           /\ returned[k].item # returned[k - 2].item
           /\ returned[k + 1] = returned[k]

\* The places of the input where a value occurs for the first time.
Firsts(xs) == {i \in 1 .. Len(xs) : \A j \in 1 .. i - 1 : xs[j] # xs[i]}

\* The k-th of them.
KthFirst(xs, k) ==
    CHOOSE i \in Firsts(xs) : Cardinality({j \in Firsts(xs) : j <= i}) = k

\* C17: RemoveDuplicates yields exactly the first occurrence of each distinct
\* value of its input, in the order of those first occurrences, and never
\* yields a value it has already yielded, whether or not the repeats are
\* adjacent.
C17_RemoveDuplicatesFirstOccurrences ==
    call = "RemoveDuplicates" =>
        /\ \A k \in 1 .. Len(returned) :
               Yielded[k] = IF k <= Cardinality(Firsts(given.iter))
                            THEN Some(given.iter[KthFirst(given.iter, k)])
                            ELSE None
        /\ \A i, j \in 1 .. Len(returned) :
               (i < j /\ Yielded[i] # None) => Yielded[j] # Yielded[i]

\* An input whose first value comes back after a different one, read to
\* its end.
C17_Witness ==
    /\ call = "RemoveDuplicates"
    /\ Len(given.iter) = 3
    /\ given.iter[1] = given.iter[3]
    /\ given.iter[1] # given.iter[2]
    /\ Len(returned) >= 3
    /\ Yielded[3] = None

\* The accumulator the k-th term is added to or multiplied into.
AccBefore(k, start) == IF k = 1 THEN start ELSE returned[k - 1]

\* The laws of `sum` at one application: a + b = r.
SumLaws(a, b, r) ==
    /\ a = "Empty" => r = b
    /\ b = "Empty" => r = a
    /\ (a = "Infinite" \/ b = "Infinite") => r = "Infinite"
    /\ (a = "Finite" /\ b = "Finite") => r = "Finite"

\* C18: Cardinality sum has Empty as identity on both sides, Infinite absorbs
\* on both sides, and Finite + Finite = Finite; consequently sum is
\* commutative and associative over {Empty, Finite, Infinite}.
C18_SumIdentityAbsorptionCommAssoc ==
    call = "sum" =>
        /\ \A k \in 1 .. Len(returned) :
               SumLaws(AccBefore(k, "Empty"), given[k], returned[k])
        /\ \A i, j \in 1 .. Len(given) :
               /\ SumLaws(given[i], given[j], sum(given[i], given[j]))
               /\ sum(given[i], given[j]) = sum(given[j], given[i])
        /\ \A i, j, k \in 1 .. Len(given) :
               sum(sum(given[i], given[j]), given[k])
                   = sum(given[i], sum(given[j], given[k]))

\* All three cardinalities among the terms, Finite before Infinite, and
\* every term added.
C18_Witness ==
    /\ call = "sum"
    /\ Len(given) = 3
    /\ given = <<"Finite", "Empty", "Infinite">>
    /\ Len(returned) = 3
    /\ returned = <<"Finite", "Finite", "Infinite">>

\* Empty if any of the factors is, else Infinite if any is, else Finite.
ProductOf(cs) ==
    CASE \E i \in 1 .. Len(cs) : cs[i] = "Empty" -> "Empty"
      [] \E i \in 1 .. Len(cs) : cs[i] = "Infinite" -> "Infinite"
      [] OTHER -> "Finite"

\* C19: Cardinality product is Empty whenever any factor is Empty (even when
\* another factor is Infinite), otherwise Infinite when any factor is
\* Infinite, otherwise Finite; the product of zero factors (the unit tuple)
\* is Finite.
C19_ProductEmptyAbsorbsThenInfinite ==
    call = "of_prod" =>
        /\ \A k \in 1 .. Len(returned) :
               returned[k] = ProductOf(SubSeq(given, 1, k))
        /\ object = ProductOf(SubSeq(given, 1, Len(returned)))
        /\ CardinalityTuple(given) = ProductOf(given)
        /\ CardinalityTuple(<<>>) = "Finite"

\* An Infinite factor before an Empty one, and one after it: every factor
\* multiplied in, the product Empty.
C19_Witness ==
    /\ call = "of_prod"
    /\ given = <<"Infinite", "Empty", "Infinite">>
    /\ Len(returned) = 3
    /\ object = "Empty"

\* C20: in the seed sequence used by witness, trial N has size budget exactly
\* N: the budget is 0 for the first seed and grows by exactly 1 with every
\* following seed, so budgets are strictly increasing.
C20_TrialSizeIsTrialNumber ==
    call = "witness" =>
        /\ \A i \in 1 .. Len(trace) : trace[i].seed.size = i - 1
        /\ \A i \in 1 .. Len(trace) - 1 :
               trace[i + 1].seed.size = trace[i].seed.size + 1
        /\ \A i \in 1 .. Len(trace) - 1 :
               trace[i].seed.size < trace[Len(trace)].seed.size

\* All N_TRIALS seeds of one call handed out, the last with budget
\* N_TRIALS - 1.
C20_Witness ==
    /\ call = "witness"
    /\ Len(trace) = N_TRIALS
    /\ trace[1].seed.size = 0
    /\ trace[N_TRIALS].seed.size = N_TRIALS - 1

\* C21, as stated: each time generation continues into an internal-node
\* constructor it consumes one unit of the seed's size budget, so a value
\* conjured from a seed of size S contains at most S internal-node
\* constructors along any generation path (at Peano: at most S constructors S).
C21_AtMostSizeInternalNodes ==
    (call = "witness" /\ ty = TyPeano) =>
        \A i \in 1 .. Len(trace) :
            trace[i].conjured # None =>
                Unwrap(trace[i].conjured) <= trace[i].seed.size

\* C22: should_recurse declines to recurse exactly when prng() mod (size + 1)
\* is 0, i.e. for one residue out of size + 1; with size budget 0 it therefore
\* always declines, and generation of a recursive type stops at a leaf.
C22_DeclinesOnResidueZero ==
    /\ (call = "should_recurse" /\ pc = "returned") =>
           /\ result = Some(samples[1] % (seedIn.size + 1) # 0)
           /\ seedIn.size = 0 => result = Some(FALSE)
    /\ (call = "conjure" /\ ty = TyPeano /\ pc = "returned" /\ seedIn.size = 0) =>
           result = Some(0)

\* A seed with budget left whose word is a multiple of size + 1: declined.
C22_Witness ==
    /\ call = "should_recurse"
    /\ pc = "returned"
    /\ seedIn.size >= 2
    /\ samples[1] # 0
    /\ result = Some(FALSE)

\* The declaration index of the variant a value is of.
VariantOf(T, v) ==
    CASE T.k = "enum" -> v.variant
      [] T.k = "Peano" -> IF v = 0 THEN 0 ELSE 1

\* The corner values of the variants declared before the variant of v, in
\* declaration order (every one a unit variant: one corner each).
EarlierCorners(T, v) ==
    [i \in 1 .. VariantOf(T, v) |->
        IF T.k = "enum" THEN EnumValue(i - 1) ELSE 0]

\* The first step of minimal(t), seen through what it offered the property
\* (`tried`) and what it returned (`accepted`, empty when it returned None).
StepTriesEarlierCornersFirst(corners) ==
    /\ \A i \in 1 .. Len(tried) :
           i <= Len(corners) => tried[i].v = corners[i]
    /\ IF \E i \in 1 .. Len(corners) : Holds(property, corners[i])
       THEN \E i \in 1 .. Len(corners) :
                /\ Holds(property, corners[i])
                /\ \A j \in 1 .. i - 1 : ~Holds(property, corners[j])
                /\ Len(tried) = i
                /\ accepted = <<corners[i]>>
       ELSE /\ Len(tried) >= Len(corners)
            /\ \A i \in Len(corners) + 1 .. Len(tried) :
                   VariantOf(ty, tried[i].v) = VariantOf(ty, t)
            /\ \A i \in 1 .. Len(accepted) :
                   VariantOf(ty, accepted[i]) = VariantOf(ty, t)

\* C23: step on an enum value of variant V tests, in declaration order, the
\* corner values of every variant declared before V and returns the first one
\* that satisfies the property; only if none does are V's own fields shrunk
\* structurally, and no variant declared after V is ever produced.
C23_EarlierVariantsFirstInOrder ==
    (call = "minimal" /\ steps = 1 /\ ty.k \in {"enum", "Peano"}) =>
        /\ StepTriesEarlierCornersFirst(EarlierCorners(ty, t))
        /\ \A i \in 1 .. Len(tried) : VariantOf(ty, tried[i].v) <= VariantOf(ty, t)
        /\ \A i \in 1 .. Len(accepted) : VariantOf(ty, accepted[i]) <= VariantOf(ty, t)

\* The last of four variants, the first variant rejected and the second
\* accepted although the third would be too.
C23_Witness ==
    /\ call = "minimal"
    /\ steps = 1
    /\ ty = TyEnum(MaxStepVariants)
    /\ t = EnumValue(3)
    /\ property.m = {EnumValue(1), EnumValue(2)}
    /\ Len(tried) = 2
    /\ accepted = <<EnumValue(1)>>

\* The k-th rung of the ladder of n, k counted from 0: n - (n >> k).
Rung(n, k) == n - (n \div (2 ^ k))

\* C24: step on an unsigned integer n tests the candidates n - (n >> k) for
\* k = 0, 1, 2, ... in that order, stops as soon as n >> k is 0, returns the
\* first candidate for which the property holds, and evaluates the property
\* at most bit-width-of-n times; for n = 0 it tests nothing and returns None.
C24_UnsignedLadder ==
    (call = "minimal" /\ ty = TyU8 /\ steps = 1) =>
        /\ \A i \in 1 .. Len(tried) :
               /\ tried[i].v = Rung(t, i - 1)
               /\ t \div (2 ^ (i - 1)) # 0
               /\ tried[i].ok = Holds(property, tried[i].v)
               /\ i < Len(tried) => ~tried[i].ok
        /\ Len(tried) <= BITS
        /\ IF Len(tried) > 0 /\ tried[Len(tried)].ok
           THEN accepted = <<tried[Len(tried)].v>>
           ELSE /\ accepted = <<>>
                /\ result = Some(t)
                /\ Len(tried) = BITS \/ t \div (2 ^ Len(tried)) = 0
        /\ t = 0 => (tried = <<>> /\ accepted = <<>>)

\* A value with its top bit set and a property no rung satisfies: all
\* bit-width rungs tested and None returned.
C24_Witness ==
    /\ call = "minimal"
    /\ ty = TyU8
    /\ steps = 1
    /\ t >= 2 ^ (BITS - 1)
    /\ Len(tried) = BITS
    /\ accepted = <<>>
    /\ pc = "returned"

\* The values a signed step offered to the property, in order.
OfferedI8 == [j \in 1 .. Len(tried) |-> tried[j].v[1]]

\* The magnitude of an i8, as the unsigned type holds it.
Magnitude(x) == IF x < 0 THEN -x ELSE x

\* The k-th rung of the ladder on the magnitude of x, under the sign of x.
SignedRung(x, k) ==
    IF x < 0 THEN -Rung(Magnitude(x), k) ELSE Rung(Magnitude(x), k)

\* From place `from` on, the offered values are the rungs of the ladder on
\* the magnitude of x under the sign of x, in order, each but the last
\* rejected; the step returns the last when it is accepted and None only
\* when the ladder is exhausted.
LadderUnderSign(x, offered, from) ==
    /\ \A j \in from .. Len(offered) :
           /\ offered[j] = SignedRung(x, j - from)
           /\ Magnitude(x) \div (2 ^ (j - from)) # 0
           /\ j < Len(offered) => ~tried[j].ok
    /\ Len(offered) - from + 1 <= BITS
    /\ IF Len(offered) >= from /\ tried[Len(offered)].ok
       THEN result = Some(offered[Len(offered)])
       ELSE /\ result = None
            /\ \/ Len(offered) - from + 1 = BITS
               \/ Magnitude(x) \div (2 ^ (Len(offered) - from + 1)) = 0

\* C25: step on a negative signed integer tests its negation before any
\* other candidate and returns the negation if the property holds for it;
\* in every other case (non-negative input, unrepresentable negation such as
\* MIN, or negation rejected) the result comes from shrinking the (sign,
\* magnitude) pair with the unsigned ladder, and is a representable value of
\* that signed type.
C25_NegationFirstThenSignMagnitude ==
    (call = "step" /\ ty = TyI8 /\ pc = "returned") =>
        /\ \A j \in 1 .. Len(tried) :
               /\ OfferedI8[j] \in I8
               /\ tried[j].ok = (OfferedI8[j] \in property.m)
        /\ result # None =>
               /\ Unwrap(result) \in I8
               /\ Unwrap(result) \in property.m
        /\ IF t < 0 /\ t # I8_MIN
           THEN /\ tried # <<>>
                /\ OfferedI8[1] = -t
                /\ IF -t \in property.m
                   THEN result = Some(-t) /\ Len(tried) = 1
                   ELSE \* the pair's sign is offered as `false`: the
                        \* negation once more, rejected once more
                        /\ Len(tried) >= 2
                        /\ OfferedI8[2] = -t
                        /\ LadderUnderSign(t, OfferedI8, 3)
           ELSE LadderUnderSign(t, OfferedI8, 1)

\* A negative value whose negation is rejected and whose ladder, under the
\* negative sign, reaches an accepted value.
C25_Witness ==
    /\ call = "step"
    /\ ty = TyI8
    /\ pc = "returned"
    /\ t < 0
    /\ t # I8_MIN
    /\ -t \notin property.m
    /\ Len(tried) > 3
    /\ result # None
    /\ Unwrap(result) < 0

\* C26: for every type, including recursive derived enums such as
\* `O | S(Box<Self>)`, a call to corners() returns after finitely many steps
\* and the sequence it yields is finite; calling corners() again restarts
\* the same sequence from its beginning.  A call returns exactly when no
\* corners() is entered while a corners() of the same type is in progress
\* (the function has no argument and no state, so a call entered again
\* enters itself again), and so it never exhausts the stack; every drain
\* yields the same finite sequence.
C26_CornersReturnsFiniteRestartable ==
    (call = "corners") =>
        /\ pc # "overflowed"
        /\ \A i, j \in 1 .. Len(object) : object[i].ty = object[j].ty => i = j
        /\ \A i \in 1 .. Len(returned) : returned[i] = returned[1]

\* The constructor at the root of a Peano value (the number of its S).
RootCtor(v) == IF v = 0 THEN "O" ELSE "S"

WholeOrTestedAndHeld(range) ==
    \/ range.lo = 0 /\ range.hi = Len(t)
    \/ \E i \in 1 .. Len(given) :
          /\ given[i].lo = range.lo
          /\ given[i].hi = range.hi
          /\ InBounds(given[i].lo, given[i].hi)
          /\ given[i].ok

\* C28: phase 1 of vector shrinking returns a contiguous sub-slice of its
\* input: either the whole input, or a range on which the property was
\* tested and held; it gets there with a jump that halves every round,
\* probing dropping elements from the left before dropping elements from
\* the right in each round.
C28_ReturnsWholeOrTestedSubSlice ==
    (call = "shrink_horizontal_contiguous") =>
        /\ pc # "panicked"
        /\ pc = "returned" =>
              /\ InBounds(Unwrap(result).lo, Unwrap(result).hi)
              /\ WholeOrTestedAndHeld(Unwrap(result))
        /\ \A i \in 1 .. Len(given) - 1 :
              \/ given[i + 1].jump * 2 <= given[i].jump
              \/ /\ given[i + 1].jump = given[i].jump
                 /\ given[i].by = "lhs"
                 /\ given[i + 1].by = "rhs"

\* C29: every index range that the contiguous-sub-slice search probes or
\* returns satisfies start <= end <= input length, for every input length
\* and every property, including properties that hold on the empty slice
\* (so the unchecked slice accesses are always in bounds).
C29_ProbedRangesInBounds ==
    (call = "shrink_horizontal_contiguous") =>
        /\ \A i \in 1 .. Len(given) : InBounds(given[i].lo, given[i].hi)
        /\ result # None => InBounds(Unwrap(result).lo, Unwrap(result).hi)

\* C30: for every head sequence and tail factory, including empty ones,
\* iterating CartesianProduct never calls Cache::clear while the cache is
\* empty and never calls Fuse::reload while the fuse is active, so the
\* documented panic (and release-mode memory hazard) preconditions of those
\* two operations are never violated: no call has panicked or left the
\* program undefined, and the next call will not either.
C30_ClearAndReloadPreconditionsMet ==
    (call = "CartesianProduct") =>
        /\ pc = "iterating"
        /\ CartesianProductNext(object).sound
        /\ AutoReloadNext(object.tail).sound
        /\ \A i \in 1 .. Len(returned) :
              \* a pair was returned: its head is still cached for the clear
              \* that follows the end of the tail's run
              (i = Len(returned) /\ returned[i].item # None)
                  => CacheClearable(object.head)

\* Two heads or more and a tail that holds something, iterated to the end:
\* every head was cleared once and the tail reloaded for each.
C30_Witness ==
    /\ call = "CartesianProduct"
    /\ pc = "iterating"
    /\ Len(given.head) >= 2
    /\ given.tail # <<>>
    /\ returned # <<>>
    /\ returned[Len(returned)].item = None
    /\ Len(returned) = Len(given.head) * Len(given.tail) + 1

====
